---- MODULE Spec2Model ----
(***************************************************************************)
(* Data-access and transaction core of eva-api: the connection pool, the   *)
(* ambient transaction context (AsyncLocalStorage), the nested transaction *)
(* manager Transaction.transaction and the connection-resolution rules of  *)
(* the query builder (executeQuery for writes, get/aggregate for reads).   *)
(*                                                                         *)
(* One logical call stack is modelled.  Every await on the driver is one   *)
(* action; a driver statement either takes effect or is rejected without   *)
(* effect and raises an error.  The callback handed to                     *)
(* Transaction.transaction is arbitrary caller code: it is a               *)
(* nondeterministic sequence of builder writes, builder reads, nested      *)
(* Transaction.transaction calls, catches of a nested failure, and a final *)
(* return or throw.                                                        *)
(***************************************************************************)
EXTENDS Integers, Sequences, FiniteSets, TLC

\* ---------------------------------------------------------------- bounds
PoolSize == 2        \* connections in the pool
MaxRetries == 1      \* largest options.retries a caller passes explicitly
MaxStmts == 2        \* builder statements issued by one run of the work
MaxNested == 1       \* nested Transaction.transaction calls in one run of the work
MaxOutside == 1      \* builder writes issued after the outermost call ended
MaxPools == 2        \* pools DatabaseConnection.initialize creates
MaxCloses == 2       \* DatabaseConnection.close calls that find a pool
MaxConds == 2        \* conditions added to one query builder
MaxHaving == 1       \* having clauses added to one query builder
MaxLimit == 1        \* the largest limit and offset set on a query builder
MaxSqlRows == 2      \* rows of one bulk insert statement
MaxTotal == 25       \* rows matching a paginated query
MaxPage == 3         \* page numbers handed to paginate
MaxPerPage == 10     \* page sizes handed to paginate
MaxRows == 1         \* rows of the repository's table
MaxBatch == 1        \* rows handed to one bulk insert

\* ------------------------------------------------------ program constants
DefaultRetries == 3  \* options.retries ?? 3
BackoffUnit == 50    \* setTimeout(r, attempt * 50)

Conns == 1..PoolSize
NoConn == 0          \* txContext.getStore() === undefined
Deadlock == "ER_LOCK_DEADLOCK"
WorkCodes == {Deadlock, "APP_ERROR"}       \* err.code of errors thrown by the work
DriverCodes == {"ER_DRIVER"}               \* err.code of a rejected driver statement
Results == {"A", "B"}                      \* values the work may return
Undefined == 0 - 1                         \* options.retries not given
RetryOpts == {Undefined} \cup (0..MaxRetries)

NoErr == [at |-> 0, code |-> "none", src |-> "none"]
WorkErr(c, scope) == [at |-> scope, code |-> c, src |-> "work"]
DriverErr(c, stmt, scope) == [at |-> scope, code |-> c, src |-> stmt]

VARIABLES
  free,       \* pool: connections not checked out
  inTx,       \* per connection: a BEGIN is open on it
  pending,    \* per connection: rows written in its open transaction, in order
  committed,  \* rows in the committed database state
  store,      \* txContext.getStore() of the logical call stack
  stack,      \* frames of the Transaction.transaction calls in progress
  outcome,    \* how the outermost call ended, as seen by its caller
  stmts,      \* builder statements issued by the current run of the work
  nextScope,  \* next fresh identity of a nested call in this run of the work
  scopeEnd,   \* per nested call of this run of the work: how it ended
  written,    \* rows written by this run of the work
  hist,       \* observation of the outermost call (statement and run counters)
  lastStmt,   \* the builder statement just executed: where it ran, what it saw
  outside,    \* builder writes issued after the outermost call ended
  procs,      \* concurrent root calls: per call its position, connection, attempt
  manual,     \* connections that code outside any transaction took from the pool
  db,         \* DatabaseConnection: its _pool, the pools created, close calls in flight
  qb,         \* one QueryBuilder: its whereConditions and its last rendering
  pg,         \* the last QueryBuilder.paginate call and its result
  repo        \* a repository's table, the statements it issued, its last result

vars == <<free, inTx, pending, committed, store, stack, outcome, stmts, nextScope,
          scopeEnd, written, hist, lastStmt, outside, procs, manual, db, qb, pg, repo>>

\* The state of one logical call stack and the database it writes to.
txState == <<inTx, pending, committed, store, stack, outcome, stmts, nextScope,
             scopeEnd, written, hist, lastStmt, outside>>

\* The state the actions of one logical call stack leave alone.
others == <<procs, manual, db, qb, pg, repo>>

\* What the actions of the concurrent calls, of the hand-bound repositories and
\* of the provider leave alone.
restConc == <<txState, manual, db, qb, pg, repo>>
restBound == <<procs, db, qb, pg, repo>>
restDb == <<free, txState, procs, manual, qb, pg, repo>>
restQb == <<free, txState, procs, manual, db, pg, repo>>
restPg == <<free, txState, procs, manual, db, qb, repo>>
restRepo == <<free, txState, procs, manual, db, qb, pg>>
restReuse == <<free, txState, procs, manual, db, repo>>

\* ------------------------------------------------------------- helpers
Top == stack[Len(stack)]
SetTop(f) == [stack EXCEPT ![Len(stack)] = f]
Pop == SubSeq(stack, 1, Len(stack) - 1)
Rows(s) == {s[i] : i \in 1..Len(s)}
Out == Conns \ free     \* connections currently checked out of the pool

\* Connections are interchangeable: the pool hands out its first free connection.
FirstFree == CHOOSE c \in free : \A d \in free : c <= d

NoStmt == [ambient |-> NoConn, bound |-> NoConn, kind |-> "none", on |-> NoConn, own |-> {},
           saw |-> {}, via |-> "none"]
NoWork == [err |-> NoErr, ret |-> "none"]

OpenScope == [end |-> "open", raised |-> NoErr, rb |-> "none", runs |-> 0, workErr |-> NoErr]

NewHist == [acquires |-> 0, commits |-> 0, commitsOk |-> 0, fault |-> FALSE,
            lastWork |-> NoWork, opt |-> Undefined, path |-> "none", relCount |-> 0,
            releases |-> 0, retried |-> 0, rollbacks |-> 0, rollbacksOk |-> 0,
            waits |-> <<>>, workRuns |-> 0, workThrew |-> 0]

\* ------------------------------------------------- DatabaseConnection
\* The provider's static _pool (NoPool stands for null) and the pools it has
\* created.  initialize, getPool, getConnection and query run to their result in
\* one step; close awaits pool.end() between its test of _pool and its reset.
NoPool == 0
PoolIds == 1..MaxPools

NoCall == [outcome |-> "none", before |-> NoPool, op |-> "none"]

NewDb == [closes |-> 0, closing |-> [i \in PoolIds |-> 0], ends |-> [i \in PoolIds |-> 0],
          last |-> NoCall, made |-> 0, pool |-> NoPool, rejected |-> FALSE]

\* ------------------------------------------------------- QueryBuilder
\* whereConditions of one builder and the last rendering of its WHERE clause.
\* SQL text is kept as the sequence of its space-separated tokens.
NoRender == [stmt |-> <<>>, done |-> FALSE, of |-> <<>>, parts |-> <<>>, sql |-> <<>>,
             values |-> <<>>]
NewBuilder == [havingClause |-> <<>>, limitValue |-> <<>>, offsetValue |-> <<>>,
               out |-> NoRender, whereConditions |-> <<>>]

\* QueryBuilder.paginate: nothing paginated yet.
NoPage == [done |-> FALSE]

\* The result of a repository call, before any call was made.  before and
\* written hold the rows handed to and returned by sanitization, found the entity
\* a finder returned (none or one), input the data of the create call a finder
\* directly follows, events the hooks and the statement in the order they ran.
NoOp == [outcome |-> "none", stmts |-> 0, written |-> <<>>, before |-> <<>>, op |-> "none",
         events |-> <<>>, found |-> <<>>, id |-> 0, input |-> <<>>, n |-> 0, result |-> 0]

\* A repository class not yet instantiated, over an empty table.  A table row
\* holds the columns statements wrote to it, its deletion marker and actor, and
\* whether it was deleted for good; its id is its position.
NewRepo == [last |-> NoOp, made |-> FALSE, table |-> <<>>, useSoftDeletes |-> TRUE,
            useTimestamps |-> TRUE]

\* N root calls run concurrently against a pool of N connections.
Procs == 1..PoolSize
\* An async function the work started without awaiting it: the connection and
\* attempt of the async context it captured, and for its statement, once sent,
\* the phase of that attempt and the call then holding the connection.
NoTask == [attempt |-> 0, conn |-> NoConn, holder |-> 0, phase |-> "none", state |-> "none"]
IdleProc == [stmts |-> 0, err |-> NoErr, attempt |-> 0, conn |-> NoConn,
             borrowed |-> NoConn, exit |-> "none", pc |-> "idle", task |-> NoTask]

Init ==
  /\ free = Conns
  /\ inTx = [c \in Conns |-> FALSE]
  /\ pending = [c \in Conns |-> <<>>]
  /\ committed = {}
  /\ store = NoConn
  /\ stack = <<>>
  /\ outcome = [err |-> NoErr, result |-> "none", status |-> "none"]
  /\ stmts = 0
  /\ nextScope = 1
  /\ scopeEnd = <<>>
  /\ written = {}
  /\ hist = NewHist
  /\ lastStmt = NoStmt
  /\ outside = 0
  /\ procs = [p \in Procs |-> IdleProc]
  /\ manual = {}
  /\ db = NewDb
  /\ qb = NewBuilder
  /\ pg = NoPage
  /\ repo = NewRepo

\* Visible rows for a statement executed on connection c.
Visible(c) == committed \cup Rows(pending[c])

\* The driver executes a write on connection c: inside an open transaction the
\* row stays uncommitted on that connection, otherwise it autocommits.
ExecuteOn(c, row) ==
  IF inTx[c]
    THEN /\ pending' = [pending EXCEPT ![c] = Append(@, row)]
         /\ committed' = committed
    ELSE /\ committed' = committed \cup {row}
         /\ pending' = pending

\* Scopes (nested calls) open on the call stack.
ActiveScopes == {stack[i].scope : i \in {j \in 1..Len(stack) : stack[j].kind = "nested"}}

\* A row written by the work is identified by the attempt that wrote it, its
\* position in that run and the nested calls it was written in.
WorkRow == [src |-> "work", n |-> stmts + 1, att |-> stack[1].attempt,
            scopes |-> ActiveScopes]
OutsideRow == [src |-> "outside", n |-> outside + 1, att |-> 0, scopes |-> {}]

\* Caller code runs: inside a running work, or at top level.
InWork == stack # <<>> /\ Top.pc = "work"
AtTopLevel == stack = <<>>

\* const retries = options.retries ?? 3
Retries(r) == IF r = Undefined THEN DefaultRetries ELSE r

NewFrame(kind, pc, retries, scope) ==
  [scope |-> scope, kind |-> kind, err |-> NoErr, runs |-> 0, workErr |-> NoErr,
   result |-> "none", attempt |-> 0, conn |-> NoConn, exit |-> "none", pc |-> pc,
   retries |-> retries, entry |-> store, saved |-> NoConn, sp |-> 0, spMade |-> FALSE]

\* Variant: the ambient connection is ignored and every call takes the root branch.
IsNestedCallNever(existingConn) == FALSE

\* Which branch Transaction.transaction takes: nested iff an ambient connection exists.
IsNestedCall(existingConn) == existingConn # NoConn

\* The top frame ends by returning v / raising e to its caller.
ReturnToCaller(v) ==
  /\ stack' = Pop
  /\ outcome' = IF Len(stack) = 1
                  THEN [err |-> NoErr, result |-> v, status |-> "returned"]
                  ELSE outcome

ThrowToCaller(e) ==
  /\ stack' = IF Len(stack) = 1 THEN <<>>
              ELSE [Pop EXCEPT ![Len(stack) - 1] = [@ EXCEPT !.pc = "caught", !.err = e]]
  /\ outcome' = IF Len(stack) = 1
                  THEN [err |-> e, result |-> "none", status |-> "raised"]
                  ELSE outcome

\* ------------------------------------------------ Transaction.transaction
\* Entry: const existingConn = txContext.getStore(); nested branch or root loop.
\* The nested branch returns before options is read, so its frame keeps no retries.
Call(r) ==
  /\ \/ AtTopLevel /\ outcome.status = "none"
     \/ InWork /\ nextScope <= MaxNested
  /\ LET existingConn == store IN
       IF IsNestedCall(existingConn)
         THEN /\ stack' = Append(stack, [NewFrame("nested", "savepoint", 0, nextScope)
                                           EXCEPT !.conn = existingConn])
              /\ nextScope' = nextScope + 1
              /\ scopeEnd' = Append(scopeEnd, OpenScope)
         ELSE /\ stack' = Append(stack, NewFrame("root", "acquire", Retries(r), 0))
              /\ UNCHANGED <<nextScope, scopeEnd>>
  /\ outcome' = IF AtTopLevel THEN [outcome EXCEPT !.status = "running"] ELSE outcome
  /\ hist' = IF AtTopLevel THEN [hist EXCEPT !.opt = r] ELSE hist
  /\ lastStmt' = NoStmt
  /\ UNCHANGED <<free, inTx, pending, committed, store, stmts, written, outside>>
  /\ UNCHANGED others

\* while (true) { attempt++; const conn = await DatabaseConnection.getConnection();
Acquire ==
  /\ stack # <<>> /\ Top.kind = "root" /\ Top.pc = "acquire"
  /\ \/ /\ free # {}
        /\ free' = free \ {FirstFree}
        /\ stack' = SetTop([Top EXCEPT !.attempt = @ + 1, !.conn = FirstFree,
                                       !.pc = "isolation", !.err = NoErr, !.exit = "none",
                                       !.workErr = NoErr, !.result = "none"])
        /\ hist' = [hist EXCEPT !.acquires = @ + 1, !.relCount = 0,
                                !.lastWork = NoWork, !.path = "none"]
        /\ outcome' = outcome
        /\ stmts' = 0
        /\ nextScope' = 1
        /\ scopeEnd' = <<>>
        /\ written' = {}
     \/ \E code \in DriverCodes :
          \* getConnection rejects: outside the try, nothing to release
          /\ ThrowToCaller(DriverErr(code, "getConnection", 0))
          /\ hist' = [hist EXCEPT !.fault = TRUE]
          /\ UNCHANGED <<free, stmts, nextScope, scopeEnd, written>>
  /\ UNCHANGED <<inTx, pending, committed, store, lastStmt, outside>>
  /\ UNCHANGED others

\* if (options.isolation) await conn.query(`SET TRANSACTION ISOLATION LEVEL ...`)
\* Without options.isolation nothing is sent; with it the statement is accepted
\* or rejected.
SetIsolation ==
  /\ stack # <<>> /\ Top.kind = "root" /\ Top.pc = "isolation"
  /\ \/ /\ stack' = SetTop([Top EXCEPT !.pc = "begin"])
        /\ hist' = hist
     \/ /\ \E code \in DriverCodes :
             stack' = SetTop([Top EXCEPT !.pc = "catch", !.err = DriverErr(code, "SET", 0)])
        /\ hist' = [hist EXCEPT !.fault = TRUE]
  /\ UNCHANGED <<free, inTx, pending, committed, store, outcome, stmts, nextScope,
                 scopeEnd, written, lastStmt, outside>>
  /\ UNCHANGED others

\* await conn.beginTransaction()
Begin ==
  /\ stack # <<>> /\ Top.kind = "root" /\ Top.pc = "begin"
  /\ \/ /\ inTx' = [inTx EXCEPT ![Top.conn] = TRUE]
        /\ stack' = SetTop([Top EXCEPT !.pc = "run"])
        /\ hist' = hist
     \/ /\ \E code \in DriverCodes :
             stack' = SetTop([Top EXCEPT !.pc = "catch", !.err = DriverErr(code, "BEGIN", 0)])
        /\ hist' = [hist EXCEPT !.fault = TRUE]
        /\ inTx' = inTx
  /\ UNCHANGED <<free, pending, committed, store, outcome, stmts, nextScope,
                 scopeEnd, written, lastStmt, outside>>
  /\ UNCHANGED others

\* txContext.run(conn, callback): the store is conn for the duration of the callback.
Run ==
  /\ stack # <<>> /\ Top.kind = "root" /\ Top.pc = "run"
  /\ store' = Top.conn
  /\ stack' = SetTop([Top EXCEPT !.pc = "work", !.saved = store, !.runs = @ + 1])
  /\ hist' = [hist EXCEPT !.workRuns = @ + 1]
  /\ UNCHANGED <<free, inTx, pending, committed, outcome, stmts, nextScope, scopeEnd, written,
                 lastStmt, outside>>
  /\ UNCHANGED others

\* Transaction.activeConnection(): return txContext.getStore()
activeConnection == store

\* Variant: writes skip the ambient connection and always go through the pool.
executeQueryTargetPool(bound) == NoConn

\* QueryBuilder.executeQuery: the ambient transactional connection if there is
\* one, else the pool (NoConn stands for "through DatabaseConnection.query").
executeQueryTarget(bound) ==
  LET trxConn == activeConnection IN
    IF trxConn # NoConn THEN trxConn ELSE NoConn

\* QueryBuilder.get / aggregate: this.connection if the builder is bound, else
\* DatabaseConnection.query.
getTarget(bound) == IF bound # NoConn THEN bound ELSE NoConn

OwnRows == IF store # NoConn THEN Rows(pending[store]) ELSE {}

\* insert / insertMany / update / delete of a builder whose this.connection is bound
executeQuery(row, bound) ==
  LET t == executeQueryTarget(bound) IN
    IF t # NoConn
      THEN /\ ExecuteOn(t, row)
           /\ lastStmt' = [ambient |-> store, bound |-> bound, kind |-> "write", on |-> t,
                           own |-> OwnRows, saw |-> {}, via |-> "conn"]
      ELSE /\ free # {}                \* pool.execute: auto checkout / checkin
           /\ ExecuteOn(FirstFree, row)
           /\ lastStmt' = [ambient |-> store, bound |-> bound, kind |-> "write",
                           on |-> FirstFree, own |-> OwnRows, saw |-> {}, via |-> "pool"]

\* get / first / count / paginate of a builder whose this.connection is bound
get(bound) ==
  LET t == getTarget(bound) IN
    IF t # NoConn
      THEN lastStmt' = [ambient |-> store, bound |-> bound, kind |-> "read", on |-> t,
                        own |-> OwnRows, saw |-> Visible(t), via |-> "conn"]
      ELSE /\ free # {}
           /\ lastStmt' = [ambient |-> store, bound |-> bound, kind |-> "read",
                           on |-> FirstFree, own |-> OwnRows, saw |-> Visible(FirstFree),
                           via |-> "pool"]

\* A repository is unbound, or bound by withTransaction(Transaction.activeConnection()).
Bindings == {NoConn, store}

\* The work issues a write through a builder / repository.
WorkWrite(b) ==
  /\ InWork /\ stmts < MaxStmts
  /\ executeQuery(WorkRow, b)
  /\ stmts' = stmts + 1
  /\ written' = written \cup {WorkRow}
  /\ UNCHANGED <<free, inTx, store, stack, outcome, nextScope, scopeEnd, hist, outside>>
  /\ UNCHANGED others

\* The work issues a read through a builder / repository.
WorkRead(b) ==
  /\ InWork /\ stmts < MaxStmts
  /\ get(b)
  /\ stmts' = stmts + 1
  /\ UNCHANGED <<free, inTx, pending, committed, store, stack, outcome, nextScope,
                 scopeEnd, written, hist, outside>>
  /\ UNCHANGED others

\* Code that runs after the outermost call ended writes through a builder.
OutsideWrite ==
  /\ AtTopLevel /\ outcome.status \in {"returned", "raised"} /\ outside < MaxOutside
  /\ executeQuery(OutsideRow, NoConn)
  /\ outside' = outside + 1
  /\ UNCHANGED <<free, inTx, store, stack, outcome, stmts, nextScope, scopeEnd, written, hist>>
  /\ UNCHANGED others

\* Variant: the store is not restored when the callback throws.
StoreAfterRunLeaks(saved, threw) == IF threw THEN store ELSE saved

\* The store seen by the continuation of txContext.run(conn, callback).
StoreAfterRun(saved, threw) == saved

\* The callback ends with error e (thrown by it, or a nested failure it lets through).
WorkEndsThrowing(e) ==
  /\ IF Top.kind = "root"
       THEN /\ store' = StoreAfterRun(Top.saved, TRUE)
            /\ hist' = [hist EXCEPT !.workThrew = @ + 1,
                                    !.lastWork = [err |-> e, ret |-> "none"]]
       ELSE UNCHANGED <<store, hist>>
  /\ stack' = SetTop([Top EXCEPT !.pc = "catch", !.err = e, !.workErr = e])
  /\ lastStmt' = NoStmt
  /\ UNCHANGED <<free, inTx, pending, committed, outcome, stmts, nextScope,
                 scopeEnd, written, outside>>

WorkThrow(code) ==
  /\ InWork
  /\ WorkEndsThrowing(WorkErr(code, Top.scope))
  /\ UNCHANGED others

\* A nested call raised into the work and the work does not catch it.
WorkRethrow ==
  /\ stack # <<>> /\ Top.pc = "caught"
  /\ WorkEndsThrowing(Top.err)
  /\ UNCHANGED others

\* A nested call raised into the work; the work catches the error and goes on.
WorkCatch ==
  /\ stack # <<>> /\ Top.pc = "caught"
  /\ stack' = SetTop([Top EXCEPT !.pc = "work", !.err = NoErr])
  /\ UNCHANGED <<free, inTx, pending, committed, store, outcome, stmts, nextScope,
                 scopeEnd, written, hist, lastStmt, outside>>
  /\ UNCHANGED others

WorkReturn(v) ==
  /\ InWork
  /\ IF Top.kind = "root"
       THEN /\ store' = StoreAfterRun(Top.saved, FALSE)
            /\ hist' = [hist EXCEPT !.lastWork = [err |-> NoErr, ret |-> v]]
            /\ stack' = SetTop([Top EXCEPT !.pc = "commit", !.result = v])
       ELSE /\ stack' = SetTop([Top EXCEPT !.pc = "release", !.result = v])
            /\ UNCHANGED <<store, hist>>
  /\ lastStmt' = NoStmt
  /\ UNCHANGED <<free, inTx, pending, committed, outcome, stmts, nextScope,
                 scopeEnd, written, outside>>
  /\ UNCHANGED others

\* await conn.commit(); return result
Commit ==
  /\ stack # <<>> /\ Top.kind = "root" /\ Top.pc = "commit"
  /\ \/ /\ committed' = committed \cup Rows(pending[Top.conn])
        /\ pending' = [pending EXCEPT ![Top.conn] = <<>>]
        /\ inTx' = [inTx EXCEPT ![Top.conn] = FALSE]
        /\ stack' = SetTop([Top EXCEPT !.pc = "finally", !.exit = "return"])
        /\ hist' = [hist EXCEPT !.commits = @ + 1, !.commitsOk = @ + 1, !.path = "commit"]
     \/ /\ \E code \in DriverCodes :
             stack' = SetTop([Top EXCEPT !.pc = "catch", !.err = DriverErr(code, "COMMIT", 0)])
        /\ hist' = [hist EXCEPT !.commits = @ + 1, !.fault = TRUE]
        /\ UNCHANGED <<committed, pending, inTx>>
  /\ UNCHANGED <<free, store, outcome, stmts, nextScope, scopeEnd, written, lastStmt, outside>>
  /\ UNCHANGED others

\* Variant: the retry test looks for another error code.
ShouldRetryOtherCode(err, attempt, retries) ==
  err.code = "ER_LOCK_WAIT_TIMEOUT" /\ attempt <= retries

\* Variant: the retry test forgets the attempt bound.
ShouldRetryUnbounded(err, attempt, retries) == err.code = Deadlock

\* Variant: the retry test forgets the error code.
ShouldRetryAnyError(err, attempt, retries) == attempt <= retries

\* err.code === 'ER_LOCK_DEADLOCK' && attempt <= retries
ShouldRetry(err, attempt, retries) == err.code = Deadlock /\ attempt <= retries

\* setTimeout(r, attempt * 50)
Backoff(attempt) == attempt * BackoffUnit

PathOf(err, retry) ==
  IF retry THEN "deadlock-retry" ELSE IF err.src = "work" THEN "business" ELSE "stmt-fail"

\* catch (err) { await conn.rollback(); retry or throw }
Catch ==
  /\ stack # <<>> /\ Top.kind = "root" /\ Top.pc = "catch"
  /\ \/ LET retry == ShouldRetry(Top.err, Top.attempt, Top.retries) IN
        /\ pending' = [pending EXCEPT ![Top.conn] = <<>>]
        /\ inTx' = [inTx EXCEPT ![Top.conn] = FALSE]
        /\ stack' = SetTop([Top EXCEPT !.pc = "finally",
                                       !.exit = IF retry THEN "retry" ELSE "throw"])
        /\ hist' = [hist EXCEPT !.rollbacks = @ + 1, !.rollbacksOk = @ + 1,
                                !.retried = IF retry THEN @ + 1 ELSE @,
                                !.waits = IF retry THEN Append(@, Backoff(Top.attempt)) ELSE @,
                                !.path = PathOf(Top.err, retry)]
     \/ /\ \E code \in DriverCodes :
             stack' = SetTop([Top EXCEPT !.pc = "finally", !.exit = "throw",
                                         !.err = DriverErr(code, "ROLLBACK", 0)])
        /\ hist' = [hist EXCEPT !.rollbacks = @ + 1, !.fault = TRUE,
                                !.path = "rollback-fail"]
        /\ UNCHANGED <<pending, inTx>>
  /\ UNCHANGED <<free, committed, store, outcome, stmts, nextScope, scopeEnd, written,
                 lastStmt, outside>>
  /\ UNCHANGED others

\* Variant: the connection is released on return and throw but not before a retry.
ReleasesOnFinalExit(exit) == exit # "retry"

\* Whether the finally block of the root attempt runs conn.release() for an exit.
ReleasesOn(exit) == TRUE

\* finally { conn.release() }, then the pending return / throw / continue
Finally ==
  /\ stack # <<>> /\ Top.kind = "root" /\ Top.pc = "finally"
  /\ IF ReleasesOn(Top.exit)
       THEN /\ free' = free \cup {Top.conn}
            /\ hist' = [hist EXCEPT !.releases = @ + 1, !.relCount = @ + 1]
       ELSE UNCHANGED <<free, hist>>
  /\ CASE Top.exit = "return" -> ReturnToCaller(Top.result)
       [] Top.exit = "throw" -> ThrowToCaller(Top.err)
       [] OTHER -> /\ stack' = SetTop([Top EXCEPT !.pc = "acquire"])
                   /\ outcome' = outcome
  /\ UNCHANGED <<inTx, pending, committed, store, stmts, nextScope, scopeEnd, written,
                 lastStmt, outside>>
  /\ UNCHANGED others

\* ------------------------------------------------------- nested branch
\* await existingConn.query(`SAVEPOINT ${savepointId}`); const result = await callback()
Savepoint ==
  /\ stack # <<>> /\ Top.kind = "nested" /\ Top.pc = "savepoint"
  /\ \/ /\ stack' = SetTop([Top EXCEPT !.pc = "work", !.sp = Len(pending[Top.conn]),
                                       !.spMade = TRUE, !.runs = @ + 1])
     \/ /\ \E code \in DriverCodes :
             stack' = SetTop([Top EXCEPT !.pc = "catch",
                                         !.err = DriverErr(code, "SAVEPOINT", Top.scope)])
  /\ UNCHANGED <<free, inTx, pending, committed, store, outcome, stmts, nextScope,
                 scopeEnd, written, hist, lastStmt, outside>>
  /\ UNCHANGED others

\* await existingConn.query(`RELEASE SAVEPOINT ${savepointId}`); return result
ReleaseSavepoint ==
  /\ stack # <<>> /\ Top.kind = "nested" /\ Top.pc = "release"
  /\ \/ /\ ReturnToCaller(Top.result)
        /\ scopeEnd' = [scopeEnd EXCEPT ![Top.scope] =
                          [end |-> "returned", raised |-> NoErr, rb |-> "none",
                           runs |-> Top.runs, workErr |-> Top.workErr]]
     \/ /\ \E code \in DriverCodes :
             stack' = SetTop([Top EXCEPT !.pc = "catch",
                                         !.err = DriverErr(code, "RELEASE", Top.scope)])
        /\ UNCHANGED <<outcome, scopeEnd>>
  /\ UNCHANGED <<free, inTx, pending, committed, store, stmts, nextScope, written,
                 hist, lastStmt, outside>>
  /\ UNCHANGED others

\* Variant: the nested catch block raises a wrapping error with its own code.
NestedRethrowWrapped(err) == [err EXCEPT !.code = "ER_NESTED"]

\* What the nested catch block raises after a successful ROLLBACK TO SAVEPOINT:
\* throw err
NestedRethrow(err) == err

\* What leaves the nested catch block when ROLLBACK TO SAVEPOINT is rejected:
\* the await throws inside the catch block, so the rejection replaces err.
NestedRollbackFailed(err, rbErr) == rbErr

\* Variant: a plain ROLLBACK is sent, which undoes every row of the transaction.
RollbackWhole(rows, sp) == <<>>

\* ROLLBACK TO SAVEPOINT sp_...: the rows written on the connection after the
\* savepoint are undone, the rows written before it stay.
RollbackTo(rows, sp) == SubSeq(rows, 1, sp)

\* catch (err) { await existingConn.query(`ROLLBACK TO SAVEPOINT ...`); throw err }
\* The database can roll back only to a savepoint that exists.
RollbackToSavepoint ==
  /\ stack # <<>> /\ Top.kind = "nested" /\ Top.pc = "catch"
  /\ \/ /\ Top.spMade
        /\ pending' = [pending EXCEPT ![Top.conn] = RollbackTo(@, Top.sp)]
        /\ scopeEnd' = [scopeEnd EXCEPT ![Top.scope] =
                          [end |-> "raised", raised |-> NestedRethrow(Top.err), rb |-> "ok",
                           runs |-> Top.runs, workErr |-> Top.workErr]]
        /\ ThrowToCaller(NestedRethrow(Top.err))
     \/ /\ \E code \in DriverCodes :
             LET e == NestedRollbackFailed(Top.err, DriverErr(code, "ROLLBACK TO", Top.scope)) IN
               /\ ThrowToCaller(e)
               /\ scopeEnd' = [scopeEnd EXCEPT ![Top.scope] =
                                 [end |-> "raised", raised |-> e, rb |-> "failed",
                                  runs |-> Top.runs, workErr |-> Top.workErr]]
        /\ pending' = pending
  /\ UNCHANGED <<free, inTx, committed, store, stmts, nextScope, written, hist, lastStmt,
                 outside>>
  /\ UNCHANGED others

Next ==
  \/ \E r \in RetryOpts : Call(r)
  \/ Acquire
  \/ SetIsolation
  \/ Begin
  \/ Run
  \/ \E b \in Bindings : WorkWrite(b)
  \/ \E b \in Bindings : WorkRead(b)
  \/ \E v \in Results : WorkReturn(v)
  \/ \E code \in WorkCodes : WorkThrow(code)
  \/ WorkRethrow
  \/ WorkCatch
  \/ Commit
  \/ Catch
  \/ Finally
  \/ Savepoint
  \/ ReleaseSavepoint
  \/ RollbackToSavepoint
  \/ OutsideWrite

Spec == Init /\ [][Next]_vars

\* ------------------------------------------------------------ executeRaw
\* The work of a transaction also issues raw statements through executeRaw
\* (UserRepository.incrementFailedLoginAttempts, resetFailedLoginAttempts).
RawRow == [src |-> "raw", n |-> stmts + 1, att |-> stack[1].attempt,
           scopes |-> ActiveScopes]

\* const conn = repo['connection']: the connection the repository was bound
\* to, else DatabaseConnection.query (NoConn)
executeRawTarget(bound) == IF bound # NoConn THEN bound ELSE NoConn

\* executeRaw(repo, sql, params) for a repository whose connection is bound
executeRaw(row, bound) ==
  LET t == executeRawTarget(bound) IN
    IF t # NoConn
      THEN /\ ExecuteOn(t, row)
           /\ lastStmt' = [ambient |-> store, bound |-> bound, kind |-> "raw", on |-> t,
                           own |-> OwnRows, saw |-> {}, via |-> "conn"]
      ELSE /\ free # {}                \* pool.execute: auto checkout / checkin
           /\ ExecuteOn(FirstFree, row)
           /\ lastStmt' = [ambient |-> store, bound |-> bound, kind |-> "raw",
                           on |-> FirstFree, own |-> OwnRows, saw |-> {}, via |-> "pool"]

\* The work issues a raw UPDATE through executeRaw.
WorkRaw(b) ==
  /\ InWork /\ stmts < MaxStmts
  /\ executeRaw(RawRow, b)
  /\ stmts' = stmts + 1
  /\ written' = written \cup {RawRow}
  /\ UNCHANGED <<free, inTx, store, stack, outcome, nextScope, scopeEnd, hist, outside>>
  /\ UNCHANGED others

\* Calls that pass options.retries, with builder writes and raw statements in
\* the work.
NextRaw ==
  \/ \E r \in 0..MaxRetries : Call(r)
  \/ Acquire
  \/ SetIsolation
  \/ Begin
  \/ Run
  \/ \E b \in Bindings : WorkWrite(b)
  \/ \E b \in Bindings : WorkRaw(b)
  \/ \E v \in Results : WorkReturn(v)
  \/ \E code \in WorkCodes : WorkThrow(code)
  \/ WorkRethrow
  \/ WorkCatch
  \/ Commit
  \/ Catch
  \/ Finally
  \/ Savepoint
  \/ ReleaseSavepoint
  \/ RollbackToSavepoint

SpecRaw == Init /\ [][NextRaw]_vars

\* ------------------------------------------- concurrent root transactions
\* N root calls of Transaction.transaction run concurrently, each in its own
\* async context (its own txContext store), against the one pool.  The work of
\* each call issues repository writes and reads through unbound repositories.
\* Driver statements are accepted here; rejected statements are covered by Spec.
SetProc(p, f) == procs' = [procs EXCEPT ![p] = f]

\* The call is made: while (true) { attempt++; getConnection() } waits in the
\* pool's queue until a connection is free (waitForConnections: true).
TxStart(p) ==
  /\ procs[p].pc = "idle"
  /\ SetProc(p, [procs[p] EXCEPT !.pc = "acquire"])
  /\ UNCHANGED <<free, restConc>>

TxAcquire(p) ==
  /\ procs[p].pc = "acquire"
  /\ free # {}
  /\ free' = free \ {FirstFree}
  /\ SetProc(p, [procs[p] EXCEPT !.pc = "work", !.conn = FirstFree, !.attempt = @ + 1,
                                  !.stmts = 0, !.err = NoErr, !.exit = "none"])
  /\ UNCHANGED restConc

\* A repository write inside the work: executeQuery finds the ambient connection
\* of this call and executes on it.
TxWrite(p) ==
  /\ procs[p].pc = "work" /\ procs[p].stmts < MaxStmts
  /\ SetProc(p, [procs[p] EXCEPT !.stmts = @ + 1])
  /\ UNCHANGED <<free, restConc>>

\* A repository read inside the work: get() has no this.connection and calls
\* DatabaseConnection.query, that is pool.execute, which needs a pool connection.
TxReadCall(p) ==
  /\ procs[p].pc = "work" /\ procs[p].stmts < MaxStmts
  /\ SetProc(p, [procs[p] EXCEPT !.pc = "read-wait", !.stmts = @ + 1])
  /\ UNCHANGED <<free, restConc>>

\* pool.execute obtains a free connection for the statement ...
TxReadBorrow(p) ==
  /\ procs[p].pc = "read-wait"
  /\ free # {}
  /\ free' = free \ {FirstFree}
  /\ SetProc(p, [procs[p] EXCEPT !.pc = "reading", !.borrowed = FirstFree])
  /\ UNCHANGED restConc

\* ... and gives it back when the statement is done.
TxReadDone(p) ==
  /\ procs[p].pc = "reading"
  /\ free' = free \cup {procs[p].borrowed}
  /\ SetProc(p, [procs[p] EXCEPT !.pc = "work", !.borrowed = NoConn])
  /\ UNCHANGED restConc

\* The work returns: conn.commit(); return result
TxCommit(p) ==
  /\ procs[p].pc = "work"
  /\ SetProc(p, [procs[p] EXCEPT !.pc = "finally", !.exit = "return"])
  /\ UNCHANGED <<free, restConc>>

\* The work throws: conn.rollback(); retry on a deadlock within the budget.
TxCatch(p, code) ==
  /\ procs[p].pc = "work"
  /\ LET e == WorkErr(code, 0)
         retry == ShouldRetry(e, procs[p].attempt, Retries(Undefined)) IN
       SetProc(p, [procs[p] EXCEPT !.pc = "finally", !.err = e,
                                   !.exit = IF retry THEN "retry" ELSE "throw"])
  /\ UNCHANGED <<free, restConc>>

\* finally { conn.release() }
TxFinally(p) ==
  /\ procs[p].pc = "finally"
  /\ IF ReleasesOn(procs[p].exit)
       THEN free' = free \cup {procs[p].conn}
       ELSE free' = free
  /\ SetProc(p, [procs[p] EXCEPT !.conn = NoConn,
                                 !.pc = IF procs[p].exit = "retry" THEN "acquire"
                                        ELSE "done"])
  /\ UNCHANGED restConc

NextConc ==
  \/ \E p \in Procs : TxStart(p)
  \/ \E p \in Procs : TxAcquire(p)
  \/ \E p \in Procs : TxWrite(p)
  \/ \E p \in Procs : TxReadCall(p)
  \/ \E p \in Procs : TxReadBorrow(p)
  \/ \E p \in Procs : TxReadDone(p)
  \/ \E p \in Procs : TxCommit(p)
  \/ \E p \in Procs, code \in WorkCodes : TxCatch(p, code)
  \/ \E p \in Procs : TxFinally(p)

SpecConc == Init /\ [][NextConc]_vars

\* ------------------------------------------------ un-awaited data access
\* The work of a root call starts an async function and does not await it (as
\* RoleService.logAudit does with auditService.log).  The task keeps the async
\* context it was started in, so txContext.getStore() in it is the connection
\* of the attempt that started it, whenever its statement is issued.
TxDetach(p) ==
  /\ procs[p].pc = "work" /\ procs[p].task.state = "none"
  /\ SetProc(p, [procs[p] EXCEPT !.task = [NoTask EXCEPT !.state = "started",
                                                         !.conn = procs[p].conn,
                                                         !.attempt = procs[p].attempt]])
  /\ UNCHANGED <<free, restConc>>

\* Where the call that started a task stands when the task's statement is sent:
\* inside the attempt (after BEGIN, before COMMIT / ROLLBACK), ended (COMMIT or
\* ROLLBACK done, connection not yet released) or released.
TaskPhase(p) ==
  IF procs[p].attempt = procs[p].task.attempt /\ procs[p].pc = "work" THEN "inside"
  ELSE IF procs[p].attempt = procs[p].task.attempt /\ procs[p].pc = "finally" THEN "ended"
  ELSE "released"

\* The calls whose current attempt holds connection c.
Holders(c) == {q \in Procs : procs[q].conn = c}

\* The task reaches executeQuery: trxConn = Transaction.activeConnection() is the
\* connection it captured, and the statement is executed on it.
TaskStatement(p) ==
  /\ procs[p].task.state = "started"
  /\ SetProc(p, [procs[p] EXCEPT
                   !.task.state = "sent",
                   !.task.phase = TaskPhase(p),
                   !.task.holder = IF TaskPhase(p) = "released"
                                        /\ Holders(procs[p].task.conn) # {}
                                     THEN CHOOSE q \in Holders(procs[p].task.conn) : TRUE
                                     ELSE 0])
  /\ UNCHANGED <<free, restConc>>

NextDetach ==
  \/ \E p \in Procs : TxStart(p)
  \/ \E p \in Procs : TxAcquire(p)
  \/ \E p \in Procs : TxDetach(p)
  \/ \E p \in Procs : TaskStatement(p)
  \/ \E p \in Procs : TxCommit(p)
  \/ \E p \in Procs, code \in WorkCodes : TxCatch(p, code)
  \/ \E p \in Procs : TxFinally(p)

SpecDetach == Init /\ [][NextDetach]_vars

\* ------------------------------------------- repositories bound by hand
\* Code outside any Transaction.transaction call takes connections from the
\* pool itself, binds repositories to them with withTransaction(conn) and
\* issues statements through the bound repositories.
BoundRow == [src |-> "bound", n |-> stmts + 1, att |-> 0, scopes |-> {}]

\* const conn = await DatabaseConnection.getConnection()
ManualAcquire ==
  /\ AtTopLevel /\ free # {}
  /\ free' = free \ {FirstFree}
  /\ manual' = manual \cup {FirstFree}
  /\ UNCHANGED <<txState, restBound>>

\* await conn.beginTransaction()
ManualBegin(c) ==
  /\ c \in manual /\ ~inTx[c]
  /\ inTx' = [inTx EXCEPT ![c] = TRUE]
  /\ UNCHANGED <<free, pending, committed, store, stack, outcome, stmts, nextScope,
                 scopeEnd, written, hist, lastStmt, outside, manual, restBound>>

\* repo.withTransaction(c).create / update / softDelete / hardDelete / restore:
\* newQuery() hands c to the builder, the write goes through executeQuery.
BoundWrite(c) ==
  /\ c \in manual /\ stmts < MaxStmts
  /\ executeQuery(BoundRow, c)
  /\ stmts' = stmts + 1
  /\ UNCHANGED <<free, inTx, store, stack, outcome, nextScope, scopeEnd, written, hist,
                 outside, manual, restBound>>

\* repo.withTransaction(c).findById / findAll / paginate: the read goes through get.
BoundRead(c) ==
  /\ c \in manual /\ stmts < MaxStmts
  /\ get(c)
  /\ stmts' = stmts + 1
  /\ UNCHANGED <<free, inTx, pending, committed, store, stack, outcome, nextScope,
                 scopeEnd, written, hist, outside, manual, restBound>>

\* await conn.commit()
ManualCommit(c) ==
  /\ c \in manual /\ inTx[c]
  /\ committed' = committed \cup Rows(pending[c])
  /\ pending' = [pending EXCEPT ![c] = <<>>]
  /\ inTx' = [inTx EXCEPT ![c] = FALSE]
  /\ UNCHANGED <<free, store, stack, outcome, stmts, nextScope, scopeEnd, written, hist,
                 lastStmt, outside, manual, restBound>>

\* await conn.rollback()
ManualRollback(c) ==
  /\ c \in manual /\ inTx[c]
  /\ pending' = [pending EXCEPT ![c] = <<>>]
  /\ inTx' = [inTx EXCEPT ![c] = FALSE]
  /\ UNCHANGED <<free, committed, store, stack, outcome, stmts, nextScope, scopeEnd,
                 written, hist, lastStmt, outside, manual, restBound>>

\* conn.release(), once its transaction is over
ManualRelease(c) ==
  /\ c \in manual /\ ~inTx[c]
  /\ free' = free \cup {c}
  /\ manual' = manual \ {c}
  /\ UNCHANGED <<txState, restBound>>

NextBound ==
  \/ ManualAcquire
  \/ \E c \in Conns : ManualBegin(c)
  \/ \E c \in Conns : BoundWrite(c)
  \/ \E c \in Conns : BoundRead(c)
  \/ \E c \in Conns : ManualCommit(c)
  \/ \E c \in Conns : ManualRollback(c)
  \/ \E c \in Conns : ManualRelease(c)

SpecBound == Init /\ [][NextBound]_vars

\* ------------------------------------------- DatabaseConnection: calls
\* Variant: initialize does not test for an existing pool.
AlreadyInitializedNever(pool) == FALSE

\* if (this._pool) throw new Error('Database pool already initialized')
AlreadyInitialized(pool) == pool # NoPool

\* static initialize(config)
initialize ==
  /\ IF AlreadyInitialized(db.pool)
       THEN db' = [db EXCEPT !.rejected = TRUE,
                             !.last = [outcome |-> "already-initialized", before |-> db.pool,
                                       op |-> "initialize"]]
       ELSE /\ db.made < MaxPools
            /\ db' = [db EXCEPT !.pool = db.made + 1, !.made = @ + 1,
                                !.last = [outcome |-> "ok", before |-> db.pool,
                                          op |-> "initialize"]]
  /\ UNCHANGED restDb

\* if (!this._pool) throw new Error('Database pool not initialized. ...')
getPoolOutcome(pool) == IF pool = NoPool THEN "not-initialized" ELSE "ok"

\* What the driver answers on a pool: a pool whose end() has been called may
\* still serve the call or refuse it.
DriverOutcomes(pool) == IF db.ends[pool] > 0 THEN {"ok", "pool-closed"} ELSE {"ok"}

\* static getPool()
getPool ==
  /\ db' = [db EXCEPT !.last = [outcome |-> getPoolOutcome(db.pool), before |-> db.pool,
                                op |-> "getPool"]]
  /\ UNCHANGED restDb

\* static async getConnection() / query(): const pool = this.getPool(); then the
\* driver call on the pool.
ProviderCall(op) ==
  /\ \E o \in IF getPoolOutcome(db.pool) = "ok" THEN DriverOutcomes(db.pool)
              ELSE {getPoolOutcome(db.pool)} :
       db' = [db EXCEPT !.last = [outcome |-> o, before |-> db.pool, op |-> op]]
  /\ UNCHANGED restDb

\* static async close(): if (this._pool) { await this._pool.end(); ...
closeCall ==
  /\ IF db.pool # NoPool
       THEN /\ db.closes < MaxCloses
            /\ db' = [db EXCEPT !.ends[db.pool] = @ + 1, !.closing[db.pool] = @ + 1,
                                !.closes = @ + 1,
                                !.last = [outcome |-> "awaiting", before |-> db.pool,
                                          op |-> "close"]]
       ELSE db' = [db EXCEPT !.last = [outcome |-> "ok", before |-> db.pool, op |-> "close"]]
  /\ UNCHANGED restDb

\* ... this._pool = null } once pool.end() of pool i has resolved.  When end()
\* was called more than once on the pool the driver may reject a call, and the
\* close that awaits it fails without resetting _pool.
closeResume(i) ==
  /\ db.closing[i] > 0
  /\ \/ db' = [db EXCEPT !.pool = NoPool, !.closing[i] = @ - 1,
                         !.last = [outcome |-> "ok", before |-> db.pool, op |-> "close-end"]]
     \/ /\ db.ends[i] > 1
        /\ db' = [db EXCEPT !.closing[i] = @ - 1,
                            !.last = [outcome |-> "end-rejected", before |-> db.pool,
                                      op |-> "close-end"]]
  /\ UNCHANGED restDb

NextDb ==
  \/ initialize
  \/ getPool
  \/ \E op \in {"getConnection", "query"} : ProviderCall(op)
  \/ closeCall
  \/ \E i \in PoolIds : closeResume(i)

SpecDb == Init /\ [][NextDb]_vars

\* ------------------------------------------- QueryBuilder: WHERE clause
Columns == {"a", "b"}
Operators == {"=", ">"}                      \* operators handed to where / orWhere
Bindings1 == {1, 2}                          \* values bound to a placeholder
InLists == {<<>>, <<1>>, <<1, 2>>}           \* arrays handed to whereIn / whereNotIn
RawSqls == {<<"a", ">", "0">>, <<"b", "=", "?">>}

Cond(type, column, operator, value, sql, boolean) ==
  [sql |-> sql, type |-> type, column |-> column, operator |-> operator,
   value |-> value, boolean |-> boolean]

\* this.whereConditions.push(cond); return this
Push(cond) ==
  /\ Len(qb.whereConditions) < MaxConds
  /\ qb' = [qb EXCEPT !.whereConditions = Append(@, cond)]
  /\ UNCHANGED restQb

where(column, operator, value) ==
  Push(Cond("Basic", column, operator, <<value>>, <<>>, "AND"))
orWhere(column, operator, value) ==
  Push(Cond("Basic", column, operator, <<value>>, <<>>, "OR"))
whereIn(column, values) == Push(Cond("In", column, "IN", values, <<>>, "AND"))
whereNotIn(column, values) == Push(Cond("In", column, "NOT IN", values, <<>>, "AND"))
whereNull(column) == Push(Cond("Null", column, "IS NULL", <<>>, <<>>, "AND"))
whereNotNull(column) == Push(Cond("NotNull", column, "IS NOT NULL", <<>>, <<>>, "AND"))
whereRaw(sql, bindings, boolean) == Push(Cond("Raw", "", "", bindings, sql, boolean))

\* Variant: every condition after the first is joined with AND.
PrefixAlwaysAnd(index, cond) == IF index = 0 THEN "WHERE" ELSE "AND"

\* const prefix = index === 0 ? 'WHERE' : cond.boolean
Prefix(index, cond) == IF index = 0 THEN "WHERE" ELSE cond.boolean

\* cond.value.map(() => '?').join(', ')
Placeholders(n) == [i \in 1..(IF n = 0 THEN 0 ELSE 2 * n - 1) |->
                      IF i % 2 = 1 THEN "?" ELSE ","]

\* The text one condition adds to sqlParts.
Part(index, cond) ==
  LET prefix == Prefix(index, cond) IN
    CASE cond.type = "Basic" -> <<prefix, cond.column, cond.operator, "?">>
      [] cond.type = "In" -> <<prefix, cond.column, cond.operator, "(">>
                               \o Placeholders(Len(cond.value)) \o <<")">>
      [] cond.type \in {"Null", "NotNull"} -> <<prefix, cond.column, cond.operator>>
      [] cond.type = "Raw" -> <<prefix>> \o cond.sql

\* The values one condition adds: values.push(cond.value) / push(...cond.value)
PartValues(cond) == IF cond.type \in {"Null", "NotNull"} THEN <<>> ELSE cond.value

RECURSIVE Flatten(_)
Flatten(ss) == IF ss = <<>> THEN <<>> ELSE Head(ss) \o Flatten(Tail(ss))

\* private buildWhereClause(): sqlParts.join(' ') and values
buildWhereClause(conds) ==
  IF Len(conds) = 0
    THEN [parts |-> <<>>, sql |-> <<>>, values |-> <<>>]
    ELSE LET parts == [i \in 1..Len(conds) |-> Part(i - 1, conds[i])] IN
           [parts |-> parts, sql |-> Flatten(parts),
            values |-> Flatten([i \in 1..Len(conds) |-> PartValues(conds[i])])]

\* ` HAVING ${this.havingClause.join(' AND ')}`
RECURSIVE JoinAnd(_)
JoinAnd(clauses) ==
  IF Len(clauses) = 0 THEN <<>>
  ELSE IF Len(clauses) = 1 THEN clauses[1]
  ELSE clauses[1] \o <<"AND">> \o JoinAnd(Tail(clauses))

HavingSql(clauses) ==
  IF Len(clauses) > 0 THEN <<"HAVING">> \o JoinAnd(clauses) ELSE <<>>

\* if (this.limitValue !== undefined) sql += ` LIMIT ${this.limitValue}`, and
\* the same for OFFSET; an unset value is the empty sequence
LimitOffsetSql(limitValue, offsetValue) ==
  (IF limitValue # <<>> THEN <<"LIMIT", ToString(limitValue[1])>> ELSE <<>>)
    \o (IF offsetValue # <<>> THEN <<"OFFSET", ToString(offsetValue[1])>> ELSE <<>>)

\* toSql(): the select statement the builder emits, its WHERE clause (sql, of
\* parts) and its values, which are those of the WHERE clause
toSql ==
  /\ LET w == buildWhereClause(qb.whereConditions) IN
       qb' = [qb EXCEPT !.out = [stmt |-> <<"SELECT">> \o w.sql
                                            \o HavingSql(qb.havingClause)
                                            \o LimitOffsetSql(qb.limitValue,
                                                              qb.offsetValue),
                                 done |-> TRUE, of |-> qb.whereConditions,
                                 parts |-> w.parts, sql |-> w.sql,
                                 values |-> w.values]]
  /\ UNCHANGED restQb

NextQb ==
  \/ \E c \in Columns, o \in Operators, v \in Bindings1 : where(c, o, v)
  \/ \E c \in Columns, o \in Operators, v \in Bindings1 : orWhere(c, o, v)
  \/ \E c \in Columns, vs \in InLists : whereIn(c, vs)
  \/ \E c \in Columns, vs \in InLists : whereNotIn(c, vs)
  \/ \E c \in Columns : whereNull(c)
  \/ \E c \in Columns : whereNotNull(c)
  \/ \E s \in RawSqls, b \in {"AND", "OR"} :
       whereRaw(s, IF s[3] = "?" THEN <<1>> ELSE <<>>, b)
  \/ toSql

SpecQb == Init /\ [][NextQb]_vars

\* ------------------------------------- QueryBuilder: emitted statements
\* join, groupBy, orderBy, distinct and the lock flags add text without
\* placeholders and no values; they are left out of the rendered statement.
RowValues == {<<1>>, <<1, 2>>}               \* Object.values(data) of a row
RowBatches == UNION {[1..m -> RowValues] : m \in 0..MaxSqlRows}

\* having(column, operator, value): havingClause.push(`${column} ${operator} ?`);
\* the value is dropped
having(column, operator, value) ==
  /\ Len(qb.havingClause) < MaxHaving
  /\ qb' = [qb EXCEPT !.havingClause = Append(@, <<column, operator, "?">>)]
  /\ UNCHANGED restQb

\* limit(limit): this.limitValue = limit
limit(n) ==
  /\ qb' = [qb EXCEPT !.limitValue = <<n>>]
  /\ UNCHANGED restQb

\* offset(offset): this.offsetValue = offset
offset(n) ==
  /\ qb' = [qb EXCEPT !.offsetValue = <<n>>]
  /\ UNCHANGED restQb

\* columns.map(col => `${col} = ?`).join(', ')
RECURSIVE SetClause(_)
SetClause(n) ==
  IF n = 0 THEN <<>>
  ELSE IF n = 1 THEN <<"col", "=", "?">>
  ELSE SetClause(n - 1) \o <<",", "col", "=", "?">>

\* The statement a terminal call hands to the driver, with its values.
Emitted(stmt, values) ==
  [stmt |-> stmt, done |-> TRUE, of |-> qb.whereConditions, parts |-> <<>>,
   sql |-> <<>>, values |-> values]

\* insert(data): INSERT INTO t (columns) VALUES (?, ...) with Object.values(data)
emitInsert(data) ==
  /\ qb' = [qb EXCEPT !.out =
              Emitted(<<"INSERT", "(">> \o Placeholders(Len(data)) \o <<")">>, data)]
  /\ UNCHANGED restQb

\* insertMany(data): one (?, ...) group per row, as long as the columns of the
\* first row; the values of every row, as many as the row has
emitInsertMany(data) ==
  /\ Len(data) > 0
  /\ LET columns == data[1]
         placeholders == [j \in 1..Len(data) |->
                            <<"(">> \o Placeholders(Len(columns)) \o <<")">>] IN
       qb' = [qb EXCEPT !.out = Emitted(<<"INSERT">> \o Flatten(placeholders),
                                        Flatten(data))]
  /\ UNCHANGED restQb

\* update(data): UPDATE t SET col = ?, ... and the WHERE clause;
\* [...values, ...where.values]
emitUpdate(data) ==
  /\ LET w == buildWhereClause(qb.whereConditions) IN
       qb' = [qb EXCEPT !.out = Emitted(<<"UPDATE", "SET">> \o SetClause(Len(data))
                                          \o w.sql, data \o w.values)]
  /\ UNCHANGED restQb

\* delete(): DELETE FROM t and the WHERE clause; where.values
emitDelete ==
  /\ LET w == buildWhereClause(qb.whereConditions) IN
       qb' = [qb EXCEPT !.out = Emitted(<<"DELETE">> \o w.sql, w.values)]
  /\ UNCHANGED restQb

NextSql ==
  \/ \E c \in Columns, o \in Operators, v \in Bindings1 : where(c, o, v)
  \/ \E c \in Columns, vs \in InLists : whereIn(c, vs)
  \/ \E s \in RawSqls, b \in {"AND", "OR"} :
       whereRaw(s, IF s[3] = "?" THEN <<1>> ELSE <<>>, b)
  \/ \E c \in Columns, o \in Operators, v \in Bindings1 : having(c, o, v)
  \/ \E n \in 1..MaxLimit : limit(n)
  \/ \E n \in 1..MaxLimit : offset(n)
  \/ toSql
  \/ \E data \in RowValues : emitInsert(data)
  \/ \E data \in RowBatches : emitInsertMany(data)
  \/ \E data \in RowValues : emitUpdate(data)
  \/ emitDelete

SpecSql == Init /\ [][NextSql]_vars

\* ------------------------------------------------ QueryBuilder.paginate
\* A JavaScript number that is an integer, Infinity or NaN.
NumInt(v) == [kind |-> "int", v |-> v]
NumInfinity == [kind |-> "Infinity", v |-> 0]
NumNaN == [kind |-> "NaN", v |-> 0]

\* Math.ceil(total / perPage) for total >= 0 and perPage >= 0
MathCeilDiv(total, perPage) ==
  IF perPage = 0
    THEN IF total = 0 THEN NumNaN ELSE NumInfinity
    ELSE NumInt((total + perPage - 1) \div perPage)

\* aggregate('COUNT', '*') over a table with T matching rows: rows[0]?.aggregate || 0
count(T) == IF T = 0 THEN 0 ELSE T

\* The rows SELECT ... LIMIT limitValue OFFSET offsetValue returns out of rows 1..T.
LimitOffsetRows(T, limitValue, offsetValue) ==
  LET left == IF T > offsetValue THEN T - offsetValue ELSE 0
      n == IF left < limitValue THEN left ELSE limitValue IN
    [i \in 1..n |-> offsetValue + i]

\* paginate(page, perPage) on a builder whose conditions match T rows
paginate(T, page, perPage) ==
  /\ LET total == count(T)
         rows == LimitOffsetRows(T, perPage, (page - 1) * perPage) IN
       pg' = [done |-> TRUE, data |-> rows, perPage |-> perPage, T |-> T, page |-> page,
              meta |-> [total |-> total, current_page |-> page,
                        last_page |-> MathCeilDiv(total, perPage), per_page |-> perPage]]
  /\ UNCHANGED restPg

NextPg == \E T \in 0..MaxTotal, page \in 1..MaxPage, perPage \in 0..MaxPerPage :
            paginate(T, page, perPage)

SpecPg == Init /\ [][NextPg]_vars

\* --------------------------------------------- QueryBuilder: reuse
\* One builder whose conditions match T rows, used for several terminal calls.
\* pg holds the last call: the limit and offset it found (before) and left
\* (after), its result, and prev, the envelope of the paginate call before it.
Unset(v, default) == IF v = <<>> THEN default ELSE v[1]

\* aggregate('COUNT', '*'): toSql renders the builder's LIMIT and OFFSET into the
\* COUNT statement, which yields one row holding T; the server applies LIMIT and
\* OFFSET to that one row.  rows[0]?.aggregate || 0
aggregate(T, limitValue, offsetValue) ==
  LET rows == LimitOffsetRows(1, Unset(limitValue, 1), Unset(offsetValue, 0)) IN
    IF rows = <<>> THEN 0 ELSE count(T)

NoMeta == [total |-> 0, current_page |-> 0, last_page |-> NumInt(0), per_page |-> 0]

LastPaginate ==
  IF pg.done /\ pg.op = "paginate"
    THEN <<[perPage |-> pg.perPage, page |-> pg.page, meta |-> pg.meta]>>
    ELSE IF pg.done THEN pg.prev ELSE <<>>

Called(T, op, page, perPage, data, meta, result) ==
  /\ pg.done => T = pg.T
  /\ pg' = [before |-> <<qb.limitValue, qb.offsetValue>>, op |-> op, done |-> TRUE,
            result |-> result, data |-> data, perPage |-> perPage, T |-> T,
            page |-> page, meta |-> meta, prev |-> LastPaginate,
            after |-> <<qb'.limitValue, qb'.offsetValue>>]
  /\ UNCHANGED restReuse

\* await builder.first(): this.limit(1), then get()
firstCall(T) ==
  /\ qb' = [qb EXCEPT !.limitValue = <<1>>]
  /\ Called(T, "first", 0, 0, LimitOffsetRows(T, 1, Unset(qb.offsetValue, 0)),
            NoMeta, 0)

\* await builder.count()
countCall(T) ==
  /\ qb' = qb
  /\ Called(T, "count", 0, 0, <<>>, NoMeta,
            aggregate(T, qb.limitValue, qb.offsetValue))

\* await builder.paginate(page, perPage): count(), then
\* limit(perPage).offset((page - 1) * perPage).get()
paginateCall(T, page, perPage) ==
  LET total == aggregate(T, qb.limitValue, qb.offsetValue)
      rows == LimitOffsetRows(T, perPage, (page - 1) * perPage) IN
    /\ qb' = [qb EXCEPT !.limitValue = <<perPage>>,
                        !.offsetValue = <<(page - 1) * perPage>>]
    /\ Called(T, "paginate", page, perPage, rows,
              [total |-> total, current_page |-> page,
               last_page |-> MathCeilDiv(total, perPage), per_page |-> perPage], total)

NextReuse ==
  \E T \in 0..MaxTotal :
    \/ firstCall(T)
    \/ countCall(T)
    \/ \E page \in 1..MaxPage, perPage \in 1..MaxPerPage : paginateCall(T, page, perPage)

SpecReuse == Init /\ [][NextReuse]_vars

\* ------------------------------------------------------- BaseRepository
\* JavaScript values are named by strings: "undefined", "null", "0", "false",
\* "" (the empty string), "A", "7", and "now" for the Date a call takes.
InputFields == {"name"}
InputValues == {"undefined", "0", "false", "", "A"}

\* Partial<T>: any subset of the fields, each holding one of the values.
Data == UNION {[S -> InputValues] : S \in SUBSET InputFields}
Batches == UNION {[1..m -> Data] : m \in 0..MaxBatch}

\* Object.keys order: fields in the order the calls write them.
KeyOrder == <<"name", "created_at", "updated_at", "updated_by">>
InDomain(d, k) == k \in DOMAIN d
KeysOf(d) == SelectSeq(KeyOrder, LAMBDA k : InDomain(d, k))

\* { ...d, k: v }
WithField(d, k, v) == [x \in (DOMAIN d) \cup {k} |-> IF x = k THEN v ELSE d[x]]

\* Variant: sanitization by truthiness, data[key] || null.
cleanForDbFalsy(data) ==
  [key \in DOMAIN data |->
     IF data[key] \in {"undefined", "0", "false", ""} THEN "null" ELSE data[key]]

\* private cleanForDb(data): clean[key] = data[key] === undefined ? null : data[key]
cleanForDb(data) ==
  [key \in DOMAIN data |-> IF data[key] = "undefined" THEN "null" ELSE data[key]]

\* new SomeRepository(): the subclass fixes useTimestamps and useSoftDeletes
construct(timestamps, softDeletes) ==
  /\ ~repo.made
  /\ repo' = [repo EXCEPT !.made = TRUE, !.useTimestamps = timestamps,
                          !.useSoftDeletes = softDeletes]
  /\ UNCHANGED restRepo

\* { ...data, created_at: now } and, if useTimestamps, updated_at: now
Stamped(data) ==
  LET rawData == WithField(data, "created_at", "now") IN
    IF repo.useTimestamps THEN WithField(rawData, "updated_at", "now") ELSE rawData

\* A row as INSERT stores it: deleted_at and deleted_by take their default.
NewRow(columns) ==
  [row |-> columns, deleted_at |-> "null", deleted_by |-> "null", gone |-> FALSE]

\* WHERE id = ?
RowPresent(id) == id \in 1..Len(repo.table) /\ ~repo.table[id].gone

\* create(data): beforeCreate, stamp, sanitize, INSERT, afterCreate,
\* return { ...insertData, id }
create(data) ==
  /\ repo.made
  /\ Len(repo.table) < MaxRows
  /\ LET rawData == Stamped(data)
         insertData == cleanForDb(rawData)
         id == Len(repo.table) + 1 IN
       repo' = [repo EXCEPT
                  !.table = Append(@, NewRow(insertData)),
                  !.last = [NoOp EXCEPT !.op = "create", !.before = <<rawData>>,
                                        !.events = <<"beforeCreate", "INSERT", "afterCreate">>,
                                        !.written = <<insertData>>, !.input = <<data>>,
                                        !.n = 1, !.stmts = 1, !.outcome = "ok",
                                        !.id = id, !.result = id]]
  /\ UNCHANGED restRepo

\* Variant: insertMany builds and issues its statement whatever the length.
insertManySkipsNever(data) == FALSE

\* if (data.length === 0) return 0
insertManySkips(data) == Len(data) = 0

\* The row of a bulk INSERT as the table stores it: its values, in key order,
\* under the columns of the first row.
Positional(first, d) ==
  [k \in DOMAIN first |->
     d[KeysOf(d)[CHOOSE i \in 1..Len(KeysOf(first)) : KeysOf(first)[i] = k]]]

\* The driver refuses an undefined bind value; the server refuses a row whose
\* number of values is not the number of columns.
BulkAccepted(data) ==
  \A j \in 1..Len(data) :
    /\ Len(KeysOf(data[j])) = Len(KeysOf(data[1]))
    /\ \A k \in DOMAIN data[j] : data[j][k] # "undefined"

\* QueryBuilder.insertMany(data) called by op; before are the rows before
\* sanitization when a repository made the call.
insertManyFrom(op, before, data) ==
  IF insertManySkips(data)
    THEN repo' = [repo EXCEPT !.last = [NoOp EXCEPT !.op = op, !.outcome = "ok"]]
    ELSE IF BulkAccepted(data)
      THEN repo' = [repo EXCEPT
                      !.table = @ \o [j \in 1..Len(data) |->
                                        NewRow(Positional(data[1], data[j]))],
                      !.last = [NoOp EXCEPT !.op = op, !.before = before,
                                            !.written = data, !.n = Len(data),
                                            !.stmts = 1, !.outcome = "ok",
                                            !.result = Len(data)]]
      ELSE repo' = [repo EXCEPT
                      !.last = [NoOp EXCEPT !.op = op, !.before = before,
                                            !.written = data, !.n = Len(data),
                                            !.stmts = 1, !.outcome = "rejected"]]

\* newQuery().insertMany(data) without the repository's preparation
insertMany(data) ==
  /\ repo.made
  /\ Len(repo.table) + Len(data) <= MaxRows
  /\ insertManyFrom("insertMany", <<>>, data)
  /\ UNCHANGED restRepo

\* createMany(data): nothing for no rows; else stamp and sanitize every row,
\* then insertMany
createMany(data) ==
  /\ repo.made
  /\ Len(repo.table) + Len(data) <= MaxRows
  /\ IF Len(data) = 0
       THEN repo' = [repo EXCEPT !.last = [NoOp EXCEPT !.op = "createMany",
                                                       !.outcome = "ok"]]
       ELSE LET rows == [j \in 1..Len(data) |-> Stamped(data[j])]
                insertData == [j \in 1..Len(data) |-> cleanForDb(rows[j])] IN
              insertManyFrom("createMany", rows, insertData)
  /\ UNCHANGED restRepo

\* Variant: update matches the row whatever its deletion marker.
updateMatchesDeleted(id) == RowPresent(id)

\* where('id', '=', id) and, if useSoftDeletes, whereNull('deleted_at')
updateMatches(id) ==
  /\ RowPresent(id)
  /\ repo.useSoftDeletes => repo.table[id].deleted_at = "null"

\* update(id, data, updatedBy): beforeUpdate, stamp if useTimestamps, add
\* updated_by, sanitize, UPDATE ... WHERE id = ? [AND deleted_at IS NULL]
update(id, data, updatedBy) ==
  /\ repo.made
  /\ LET stamped == IF repo.useTimestamps THEN WithField(data, "updated_at", "now")
                    ELSE data
         updateData == IF updatedBy # "undefined" /\ "updated_by" \notin DOMAIN stamped
                         THEN WithField(stamped, "updated_by", updatedBy)
                         ELSE stamped
         cleanData == cleanForDb(updateData)
         matched == updateMatches(id)
         last == [NoOp EXCEPT !.op = "update", !.before = <<updateData>>,
                              !.events = <<"beforeUpdate", "UPDATE">>,
                              !.written = <<cleanData>>, !.n = 1, !.stmts = 1, !.id = id]
     IN
       IF DOMAIN cleanData = {}
         THEN \* UPDATE t SET  WHERE ... is refused by the server
              repo' = [repo EXCEPT !.last = [last EXCEPT !.outcome = "rejected"]]
         ELSE IF matched
           THEN repo' = [repo EXCEPT
                           !.table[id].row =
                             [k \in (DOMAIN @) \cup DOMAIN cleanData |->
                                IF k \in DOMAIN cleanData THEN cleanData[k] ELSE @[k]],
                           !.last = [last EXCEPT !.outcome = "ok", !.result = 1]]
           ELSE repo' = [repo EXCEPT !.last = [last EXCEPT !.outcome = "ok"]]
  /\ UNCHANGED restRepo

\* Variant: findById returns the row whatever its deletion marker.
findByIdMatchesDeleted(id) == RowPresent(id)

\* where('id', '=', id).whereNull('deleted_at')
findByIdMatches(id) == RowPresent(id) /\ repo.table[id].deleted_at = "null"

\* findById(id): WHERE id = ? AND deleted_at IS NULL, first row or null
findById(id) ==
  /\ repo.made
  /\ LET matched == findByIdMatches(id)
         follows == repo.last.op = "create" /\ repo.last.id = id IN
       repo' = [repo EXCEPT
                  !.last = [NoOp EXCEPT !.op = "findById", !.id = id, !.stmts = 1,
                                        !.outcome = "ok",
                                        !.found = IF matched THEN <<repo.table[id].row>>
                                                  ELSE <<>>,
                                        !.result = IF matched THEN id ELSE 0,
                                        !.n = IF follows THEN 1 ELSE 0,
                                        !.input = IF follows THEN repo.last.input
                                                  ELSE <<>>]]
  /\ UNCHANGED restRepo

\* Variant: softDelete matches the row whatever its deletion marker.
softDeleteMatchesDeleted(id) == RowPresent(id)

\* where('id', '=', id).whereNull('deleted_at')
softDeleteMatches(id) == RowPresent(id) /\ repo.table[id].deleted_at = "null"

\* softDelete(id, deletedBy) at time now:
\* UPDATE ... SET deleted_at = now [, deleted_by = deletedBy]
\* WHERE id = ? AND deleted_at IS NULL
softDelete(id, deletedBy, now) ==
  /\ repo.made
  /\ LET matched == softDeleteMatches(id)
         last == [NoOp EXCEPT !.op = "softDelete", !.events = <<"UPDATE">>, !.id = id,
                              !.n = 1, !.stmts = 1, !.outcome = "ok"] IN
       IF matched
         THEN repo' = [repo EXCEPT
                         !.table[id].deleted_at = now,
                         !.table[id].deleted_by = IF deletedBy # "undefined" THEN deletedBy
                                                  ELSE @,
                         !.last = [last EXCEPT !.result = 1]]
         ELSE repo' = [repo EXCEPT !.last = last]
  /\ UNCHANGED restRepo

\* hardDelete(id): DELETE ... WHERE id = ?
hardDelete(id) ==
  /\ repo.made
  /\ LET last == [NoOp EXCEPT !.op = "hardDelete", !.events = <<"DELETE">>, !.id = id,
                              !.n = 1, !.stmts = 1, !.outcome = "ok"] IN
       IF RowPresent(id)
         THEN repo' = [repo EXCEPT
                         !.table[id] = [NewRow(<<>>) EXCEPT !.gone = TRUE],
                         !.last = [last EXCEPT !.result = 1]]
         ELSE repo' = [repo EXCEPT !.last = last]
  /\ UNCHANGED restRepo

\* where('id', '=', id).whereNotNull('deleted_at')
restoreMatches(id) == RowPresent(id) /\ repo.table[id].deleted_at # "null"

\* restore(id): UPDATE ... SET deleted_at = NULL, deleted_by = NULL
\* WHERE id = ? AND deleted_at IS NOT NULL
restore(id) ==
  /\ repo.made
  /\ LET last == [NoOp EXCEPT !.op = "restore", !.events = <<"UPDATE">>, !.id = id,
                              !.n = 1, !.stmts = 1, !.outcome = "ok"] IN
       IF restoreMatches(id)
         THEN repo' = [repo EXCEPT
                         !.table[id].deleted_at = "null",
                         !.table[id].deleted_by = "null",
                         !.last = [last EXCEPT !.result = 1]]
         ELSE repo' = [repo EXCEPT !.last = last]
  /\ UNCHANGED restRepo

NextRepo ==
  \/ \E timestamps \in BOOLEAN, softDeletes \in BOOLEAN : construct(timestamps, softDeletes)
  \/ \E data \in Data : create(data)
  \/ \E data \in Batches : insertMany(data)
  \/ \E data \in Batches : createMany(data)
  \/ \E id \in 1..MaxRows, data \in Data, updatedBy \in {"undefined", "7"} :
       update(id, data, updatedBy)
  \/ \E id \in 1..MaxRows : findById(id)

SpecRepo == Init /\ [][NextRepo]_vars

\* ------------------------------------------ BaseRepository: soft deletes
\* The flags of the repository classes: the default, RefreshTokenRepository,
\* AuditRepository.
Flags == {<<TRUE, TRUE>>, <<FALSE, TRUE>>, <<FALSE, FALSE>>}
Times == {"t1", "t2"}                        \* what new Date() gives softDelete
Actors == {"undefined", "7"}                 \* deletedBy / updatedBy
LifeData == {<<>>, [name |-> "B"]}           \* data handed to update

NextLife ==
  \/ \E f \in Flags : construct(f[1], f[2])
  \/ create([name |-> "A"])
  \/ \E id \in 1..MaxRows, data \in LifeData : update(id, data, "undefined")
  \/ \E id \in 1..MaxRows, deletedBy \in Actors, now \in Times :
       softDelete(id, deletedBy, now)
  \/ \E id \in 1..MaxRows : restore(id)
  \/ \E id \in 1..MaxRows : hardDelete(id)
  \/ \E id \in 1..MaxRows : findById(id)

SpecLife == Init /\ [][NextLife]_vars

\* ------------------------------------------------------------ properties
\* The outermost call has ended, as seen by its caller.
Ended == stack = <<>> /\ outcome.status \in {"returned", "raised"}

\* The retry budget in force for the outermost call.
EffRetries == IF hist.opt = Undefined THEN DefaultRetries ELSE hist.opt

\* Nested call s failed: its work threw and the call re-raised that error.
ScopeFailed(s) ==
  /\ scopeEnd[s].end = "raised"
  /\ scopeEnd[s].workErr # NoErr
  /\ scopeEnd[s].raised = scopeEnd[s].workErr

\* C1: nested-transaction isolation.  When the root call returns, no row written
\* inside a nested call that failed (its work threw, ROLLBACK TO SAVEPOINT was
\* accepted and the error re-raised, whether or not the outer work caught it) is
\* in the committed state, and every row written outside failed nested calls
\* (at root level, or only inside nested calls that returned) is committed.
C1_NestedIsolation ==
  outcome.status = "returned" =>
    \A r \in written :
      /\ (\E s \in r.scopes : ScopeFailed(s)) => r \notin committed
      /\ (\A s \in r.scopes : scopeEnd[s].end = "returned") => r \in committed

\* The root wrote X, a nested call wrote Y and threw, the outer work caught the
\* error and returned: X is committed, Y is not.
C1_Witness ==
  /\ outcome.status = "returned"
  /\ \E x \in written, y \in written :
       /\ x.scopes = {} /\ x.n < y.n /\ x \in committed
       /\ y.scopes # {} /\ (\A s \in y.scopes : ScopeFailed(s)) /\ y \notin committed

\* C2: atomicity on failure.  Whenever the root call has ended by raising an
\* error to its caller, no row written by its work (by any attempt, at any
\* nesting depth, through a bound or an unbound builder) is in the committed
\* state, whichever driver statement was rejected on the way.
C2_AtomicOnFailure ==
  outcome.status = "raised" => \A r \in committed : r.src # "work"

\* A call that raised after a retry, whose last run wrote at root level and
\* inside a nested call.
C2_Witness ==
  /\ outcome.status = "raised"
  /\ hist.workRuns >= 2
  /\ \E x \in written, y \in written : x.scopes = {} /\ y.scopes # {}
  /\ committed = {}

\* C3: every connection a root attempt acquired is released exactly once, on
\* every exit path of the attempt.  While the attempt runs its connection is
\* checked out and not yet released; once the attempt is over (the loop is back
\* at its head for a retry, or the call has ended) it has been released once,
\* every acquisition so far has its release, nothing is checked out, and the
\* attempt left by one of the five exit paths.
C3_ReleasedExactlyOnce ==
  /\ hist.relCount <= 1
  /\ hist.releases <= hist.acquires
  /\ (stack # <<>> /\ stack[1].pc # "acquire") =>
        (hist.relCount = 0 /\ stack[1].conn \in Out
           /\ hist.acquires = hist.releases + 1)
  /\ ((stack # <<>> /\ stack[1].pc = "acquire" /\ stack[1].attempt >= 1)
        \/ (stack = <<>> /\ hist.acquires >= 1)) =>
        /\ hist.relCount = 1
        /\ hist.releases = hist.acquires
        /\ Out = {}
        /\ hist.path \in {"commit", "business", "deadlock-retry", "stmt-fail",
                          "rollback-fail"}

\* An attempt whose ROLLBACK was rejected in the error handler, after an earlier
\* attempt that was retried: both connections are back in the pool.
C3_Witness ==
  /\ stack = <<>>
  /\ hist.path = "rollback-fail"
  /\ hist.acquires = 2 /\ hist.releases = 2 /\ hist.relCount = 1
  /\ free = Conns

\* C4: at any nesting depth the transaction manager holds at most one
\* checked-out connection: every frame above the first is a nested call that
\* uses the root's connection and never reaches getConnection, and the
\* acquisitions never run more than one ahead of the releases.
C4_OneConnection ==
  /\ Cardinality(Out) <= 1
  /\ hist.acquires - hist.releases \in {0, 1}
  /\ \A i \in 2..Len(stack) :
       /\ stack[i].kind = "nested"
       /\ stack[i].pc # "acquire"
       /\ stack[i].conn = stack[1].conn
       /\ stack[i].attempt = 0

\* A nested call runs its work in the second attempt of the root: one
\* connection is checked out.
C4_Witness ==
  /\ Len(stack) = 2
  /\ Top.kind = "nested" /\ Top.pc = "work"
  /\ stack[1].attempt = 2
  /\ Out = {stack[1].conn}

\* C5: inside the work every statement issued through an unbound builder or
\* repository, read or write, executes on the transaction's connection, and a
\* read sees the rows the transaction has written so far.
C5_AllStatementsOnTxConnection ==
  (lastStmt.kind # "none" /\ lastStmt.ambient # NoConn /\ lastStmt.bound = NoConn) =>
    /\ lastStmt.via = "conn"
    /\ lastStmt.on = lastStmt.ambient
    /\ lastStmt.kind = "read" => lastStmt.own \subseteq lastStmt.saw

\* Inside the work, after a write of the transaction, an unbound read went
\* through the pool on another connection and did not see the written row.
C5_Witness ==
  /\ lastStmt.kind = "read" /\ lastStmt.bound = NoConn
  /\ lastStmt.ambient # NoConn
  /\ lastStmt.via = "pool" /\ lastStmt.on # lastStmt.ambient
  /\ lastStmt.own # {} /\ lastStmt.own \cap lastStmt.saw = {}

\* C6: deadlock retry, no root-level driver statement being rejected.  When the
\* call has ended and the last run of the work returned (every earlier run having
\* thrown a deadlock and been retried), the call returned that run's result, the
\* work ran once more than it threw, and exactly one COMMIT was issued; and the
\* call never gives up on a deadlock before the work has failed options.retries
\* times, so k < R failures always get a further attempt.
C6_DeadlockRetry ==
  /\ (Ended /\ ~hist.fault /\ hist.lastWork.ret # "none") =>
        /\ outcome.status = "returned"
        /\ outcome.result = hist.lastWork.ret
        /\ hist.workRuns = hist.workThrew + 1
        /\ hist.retried = hist.workThrew
        /\ hist.commits = 1 /\ hist.commitsOk = 1
  /\ (Ended /\ ~hist.fault /\ outcome.status = "raised"
        /\ hist.lastWork.err.code = Deadlock) => hist.workThrew > EffRetries

\* The spec case: retries 3, two deadlocks, success on the third run.
C6_Witness ==
  /\ Ended /\ ~hist.fault
  /\ outcome.status = "returned" /\ outcome.result = hist.lastWork.ret
  /\ EffRetries = 3
  /\ hist.workThrew = 2 /\ hist.workRuns = 3 /\ hist.commits = 1

\* C7: bounded retry.  The number of retries never exceeds options.retries
\* (3 when not given, 0 meaning no retry) and the attempt count never exceeds
\* it by more than one; when every run of the work failed with a deadlock and
\* no root-level driver statement was rejected, the call has raised the last
\* deadlock error after options.retries retries, each attempt rolled back, no
\* COMMIT issued.
C7_BoundedRetry ==
  /\ hist.retried <= EffRetries
  /\ hist.workRuns <= EffRetries + 1
  /\ stack # <<>> => (stack[1].attempt <= EffRetries + 1
                        /\ stack[1].retries = EffRetries)
  /\ (Ended /\ ~hist.fault /\ hist.workRuns >= 1 /\ hist.workThrew = hist.workRuns
        /\ hist.lastWork.err.code = Deadlock) =>
        /\ outcome.status = "raised"
        /\ outcome.err = hist.lastWork.err
        /\ hist.retried = EffRetries
        /\ hist.workRuns = EffRetries + 1
        /\ hist.rollbacks = hist.workRuns /\ hist.rollbacksOk = hist.workRuns
        /\ hist.commits = 0

\* With the default budget the work ran four times and the deadlock was raised.
C7_Witness ==
  /\ Ended /\ ~hist.fault
  /\ hist.opt = Undefined
  /\ outcome.status = "raised" /\ outcome.err.code = Deadlock
  /\ hist.workRuns = 4 /\ hist.retried = 3 /\ hist.rollbacksOk = 4

\* C8: an error of the work whose code is not the deadlock code is never
\* retried.  From the moment the work has thrown it the attempt can only end by
\* throwing; the work is not run again (one run more than the retries made for
\* earlier deadlocks, so exactly one run when there were none), one ROLLBACK is
\* issued for the attempt, no COMMIT is issued, and when that ROLLBACK is
\* accepted the error raised to the caller is the error the work threw.
C8_OtherErrorNotRetried ==
  LET e == hist.lastWork.err IN
    (e # NoErr /\ e.code # Deadlock) =>
      /\ stack # <<>> => (stack[1].pc \in {"catch", "finally"}
                            /\ stack[1].exit # "retry")
      /\ hist.workRuns = hist.retried + 1
      /\ hist.commits = 0
      /\ Ended =>
           /\ outcome.status = "raised"
           /\ hist.rollbacks = hist.retried + 1
           /\ hist.rollbacksOk = hist.rollbacks => outcome.err = e

\* The work threw a business error in its only run: one ROLLBACK, no COMMIT,
\* the same error raised.
C8_Witness ==
  /\ Ended
  /\ outcome.status = "raised" /\ outcome.err.code = "APP_ERROR"
  /\ outcome.err = hist.lastWork.err
  /\ hist.workRuns = 1 /\ hist.rollbacks = 1 /\ hist.rollbacksOk = 1
  /\ hist.commits = 0

\* C9: a nested call never retries: its work runs at most once per invocation,
\* exactly once when it returned or threw.  When its work threw and ROLLBACK TO
\* SAVEPOINT was accepted, the error it raises is the error its work threw; and
\* a deadlock thrown inside a nested call that reaches the root's handler is
\* retried by the root exactly when the root's attempt count is within its
\* retries.
C9_NestedNeverRetries ==
  /\ \A i \in 1..Len(stack) : stack[i].kind = "nested" => stack[i].runs <= 1
  /\ \A s \in DOMAIN scopeEnd :
       /\ scopeEnd[s].runs <= 1
       /\ scopeEnd[s].end = "returned" => scopeEnd[s].runs = 1
       /\ scopeEnd[s].workErr # NoErr =>
            /\ scopeEnd[s].runs = 1
            /\ scopeEnd[s].end = "raised"
            /\ scopeEnd[s].rb = "ok" => scopeEnd[s].raised = scopeEnd[s].workErr
  /\ (stack # <<>> /\ stack[1].pc = "finally" /\ stack[1].workErr.at >= 1
        /\ stack[1].workErr.src = "work" /\ stack[1].workErr.code = Deadlock
        /\ stack[1].err = stack[1].workErr) =>
        (stack[1].exit = "retry" <=> stack[1].attempt <= stack[1].retries)

\* A deadlock thrown by the work of a nested call, run once, has reached the
\* root, which is about to retry.
C9_Witness ==
  /\ stack # <<>> /\ stack[1].pc = "finally" /\ stack[1].exit = "retry"
  /\ stack[1].workErr.at >= 1 /\ stack[1].workErr.code = Deadlock
  /\ \E s \in DOMAIN scopeEnd :
       /\ scopeEnd[s].runs = 1 /\ scopeEnd[s].rb = "ok"
       /\ scopeEnd[s].raised = stack[1].workErr

\* C10: ambient context teardown.  Outside any call there is no active
\* connection; while calls are in progress the active connection is the root's
\* connection exactly while the root's work runs and otherwise the value the
\* root was entered with; a nested call never changes it, so its caller's
\* continuation sees the value from before the call; and a write issued after
\* the outermost call ended sees no active connection and goes to the pool.
C10_ContextRestored ==
  /\ stack = <<>> => store = NoConn
  /\ stack # <<>> =>
       /\ store = IF stack[1].pc \in {"work", "caught"} THEN stack[1].conn
                  ELSE stack[1].entry
       /\ stack[1].entry = NoConn
       /\ \A i \in 2..Len(stack) : stack[i].entry = store
  /\ (AtTopLevel /\ lastStmt.kind = "write") =>
       (lastStmt.ambient = NoConn /\ lastStmt.via = "pool")

\* The root call raised an error that came out of a nested call; a later write
\* outside any transaction went to the pool and autocommitted.
C10_Witness ==
  /\ AtTopLevel /\ outcome.status = "raised" /\ outcome.err.at >= 1
  /\ store = NoConn
  /\ lastStmt.kind = "write" /\ lastStmt.via = "pool"
  /\ \E r \in committed : r.src = "outside"

\* Every concurrent call has completed.
AllDone == \A p \in Procs : procs[p].pc = "done"

\* C11: concurrent connection safety.  With N root calls against a pool of N
\* connections, no call uses more than one connection at a time, the calls can
\* always go on until all have completed, and once all have completed no
\* connection is checked out.
C11_ConcurrentSafety ==
  /\ \A p \in Procs : procs[p].conn = NoConn \/ procs[p].borrowed = NoConn
  /\ AllDone \/ ENABLED NextConc
  /\ AllDone => free = Conns

\* Every call holds its transaction connection and waits in the pool's queue
\* for a second one to run a read: the pool is empty and no call can go on.
C11_Witness ==
  /\ \A p \in Procs : procs[p].pc = "read-wait" /\ procs[p].conn # NoConn
  /\ free = {}
  /\ ~ ENABLED NextConc

\* C12: every statement issued by a repository obtained from
\* withTransaction(conn), read or write, executes on conn, also when no ambient
\* transaction context is active.
C12_BoundStatementsOnConn ==
  (lastStmt.kind # "none" /\ lastStmt.bound # NoConn) =>
    (lastStmt.via = "conn" /\ lastStmt.on = lastStmt.bound)

\* A repository bound to a connection with an open transaction wrote with no
\* ambient context: the row went through the pool and is already committed,
\* while the bound connection's transaction holds nothing.
C12_Witness ==
  /\ lastStmt.kind = "write" /\ lastStmt.ambient = NoConn
  /\ lastStmt.bound \in manual /\ inTx[lastStmt.bound]
  /\ lastStmt.via = "pool" /\ lastStmt.on # lastStmt.bound
  /\ pending[lastStmt.bound] = <<>>
  /\ \E r \in committed : r.src = "bound"

\* C13: initialize creates the pool only when none exists: called while a pool
\* exists it fails and leaves _pool as it was; getPool, getConnection and query
\* fail with the not-initialized error exactly in the states where no pool
\* exists, before the first initialize and after close.
C13_InitializeOnce ==
  /\ db.last.op = "initialize" =>
       /\ db.last.outcome = "ok" <=> db.last.before = NoPool
       /\ db.last.outcome = "ok" => (db.pool # NoPool /\ db.pool # db.last.before)
       /\ db.last.outcome # "ok" =>
            (db.last.outcome = "already-initialized" /\ db.pool = db.last.before)
  /\ db.last.op \in {"getPool", "getConnection", "query"} =>
       /\ db.pool = db.last.before
       /\ db.last.outcome = "not-initialized" <=> db.last.before = NoPool
  /\ db.pool \in {NoPool} \cup 1..db.made

\* A second initialize was rejected, the pool was then closed, and a query after
\* the close fails with the not-initialized error.
C13_Witness ==
  /\ db.rejected /\ db.made = 1 /\ db.ends[1] = 1
  /\ db.pool = NoPool
  /\ db.last = [outcome |-> "not-initialized", before |-> NoPool, op |-> "query"]

\* C14: close is idempotent: whatever the sequence of close calls, also
\* overlapping ones, end() is invoked exactly once on a pool that is closed, no
\* close fails, a completed close leaves no pool, and close without a pool does
\* nothing.
C14_CloseIdempotent ==
  /\ \A i \in PoolIds : db.ends[i] <= 1
  /\ db.last.op = "close-end" => (db.last.outcome = "ok" /\ db.pool = NoPool)
  /\ (db.last.op = "close" /\ db.last.before = NoPool) =>
       (db.last.outcome = "ok" /\ db.pool = NoPool)
  /\ \A i \in PoolIds : db.closing[i] > 0 => db.pool = i

\* Two overlapping close calls have both invoked end() on the same pool.
C14_Witness ==
  /\ db.made = 1 /\ db.ends[1] = 2 /\ db.closing[1] = 2
  /\ db.pool = 1

\* C15: for every sequence of where / orWhere / whereIn / whereNotIn / whereNull /
\* whereNotNull / whereRaw calls the rendered WHERE clause has one part per
\* condition, in insertion order; the first part starts with WHERE whatever the
\* condition's stored connector, every later part starts with its condition's
\* stored connector, and the bound values follow the same order.
C15_WherePrefixes ==
  qb.out.done =>
    LET c == qb.out.of
        parts == qb.out.parts IN
      /\ Len(parts) = Len(c)
      /\ qb.out.sql = Flatten(parts)
      /\ Len(c) = 0 => qb.out.sql = <<>>
      /\ \A i \in 1..Len(c) :
           /\ parts[i][1] = IF i = 1 THEN "WHERE" ELSE c[i].boolean
           /\ IF c[i].type = "Raw" THEN Tail(parts[i]) = c[i].sql
              ELSE parts[i][2] = c[i].column /\ parts[i][3] = c[i].operator
      /\ \A k \in 2..Len(qb.out.sql) : qb.out.sql[k] # "WHERE"
      /\ Len(qb.out.values) =
           Len(Flatten([i \in 1..Len(c) |-> IF c[i].type \in {"Null", "NotNull"}
                                              THEN <<>> ELSE c[i].value]))

\* orWhere first and a raw OR condition second: WHERE b = ? OR a > 0.
C15_Witness ==
  /\ qb.out.done /\ Len(qb.out.of) = 2
  /\ qb.out.of[1].type = "Basic" /\ qb.out.of[1].boolean = "OR"
  /\ qb.out.of[2].type = "Raw" /\ qb.out.of[2].boolean = "OR"
  /\ qb.out.sql = <<"WHERE", "b", "=", "?", "OR", "a", ">", "0">>

\* C18: whereIn(col, []) and whereNotIn(col, []) never make the builder emit an
\* empty IN () list: a rendered statement has at least one placeholder between
\* the parentheses of every IN / NOT IN.
C18_NoEmptyInList ==
  qb.out.done =>
    \A k \in 1..(Len(qb.out.sql) - 1) :
      ~(qb.out.sql[k] = "(" /\ qb.out.sql[k + 1] = ")")

\* whereIn('a', []) was accepted and rendered as WHERE a IN ( ).
C18_Witness ==
  /\ qb.out.done
  /\ qb.out.of = <<Cond("In", "a", "IN", <<>>, <<>>, "AND")>>
  /\ qb.out.sql = <<"WHERE", "a", "IN", "(", ")">>
  /\ qb.out.values = <<>>

\* C16: paginate(page, perPage) with page >= 1 and perPage >= 0 over T matching
\* rows returns meta.total = T, meta.per_page = perPage, meta.current_page = page,
\* meta.last_page the finite integer ceil(T / perPage) (the least n with
\* n * perPage >= T), and at most perPage rows.
C16_PaginationEnvelope ==
  (pg.done /\ pg.page >= 1 /\ pg.perPage >= 0) =>
    /\ pg.meta.total = pg.T
    /\ pg.meta.per_page = pg.perPage
    /\ pg.meta.current_page = pg.page
    /\ pg.meta.last_page.kind = "int"
    /\ pg.meta.last_page.v * pg.perPage >= pg.T
    /\ (pg.meta.last_page.v - 1) * pg.perPage < pg.T
    /\ Len(pg.data) <= pg.perPage

\* paginate(1, 0) over 25 rows: no row, total 25, last_page Infinity.
C16_Witness ==
  /\ pg.done /\ pg.T = 25 /\ pg.page = 1 /\ pg.perPage = 0
  /\ pg.data = <<>> /\ pg.meta.total = 25
  /\ pg.meta.last_page = NumInfinity

\* C17: insertMany([]) and createMany([]) return 0 and issue no statement, on
\* the transaction's connection or on the pool.
C17_EmptyBulkInsert ==
  (repo.last.op \in {"insertMany", "createMany"} /\ repo.last.n = 0) =>
    /\ repo.last.result = 0
    /\ repo.last.stmts = 0
    /\ repo.last.outcome = "ok"

\* insertMany([]) on a table that already holds a row.
C17_Witness ==
  /\ repo.last.op = "insertMany" /\ repo.last.n = 0
  /\ repo.last.result = 0 /\ repo.last.stmts = 0
  /\ Len(repo.table) = 1

\* C19: create(data) followed by findById of the returned id yields an entity
\* carrying the input fields (undefined written as null); created_at and
\* updated_at are both set when useTimestamps is on, and create writes neither
\* when useTimestamps is off.
C19_CreateRoundTrip ==
  (repo.last.op = "findById" /\ repo.last.n = 1) =>
    /\ Len(repo.last.found) = 1
    /\ LET entity == repo.last.found[1]
           data == repo.last.input[1] IN
         /\ \A k \in DOMAIN data :
              /\ k \in DOMAIN entity
              /\ entity[k] = IF data[k] = "undefined" THEN "null" ELSE data[k]
         /\ repo.useTimestamps =>
              /\ "created_at" \in DOMAIN entity /\ entity["created_at"] = "now"
              /\ "updated_at" \in DOMAIN entity /\ entity["updated_at"] = "now"
         /\ ~repo.useTimestamps =>
              /\ "created_at" \notin DOMAIN entity
              /\ "updated_at" \notin DOMAIN entity

\* useTimestamps off: create({name: "A"}) then findById(1) finds created_at set.
C19_Witness ==
  /\ ~repo.useTimestamps
  /\ repo.last.op = "findById" /\ repo.last.n = 1 /\ repo.last.id = 1
  /\ repo.last.input = <<[name |-> "A"]>>
  /\ repo.last.found = <<[name |-> "A", created_at |-> "now"]>>

\* C20: the rows create, createMany and update write are the rows they prepared
\* with every undefined value replaced by null, every other value (0, false and
\* the empty string included) unchanged, and the same field names.
C20_Sanitization ==
  (repo.last.op \in {"create", "createMany", "update"}) =>
    /\ Len(repo.last.written) = Len(repo.last.before)
    /\ \A j \in 1..Len(repo.last.before) :
         /\ DOMAIN repo.last.written[j] = DOMAIN repo.last.before[j]
         /\ \A k \in DOMAIN repo.last.before[j] :
              repo.last.written[j][k] =
                IF repo.last.before[j][k] = "undefined" THEN "null"
                ELSE repo.last.before[j][k]

\* update(1, {name: undefined}, 7) without timestamps writes name = null and
\* updated_by = 7.
C20_Witness ==
  /\ repo.last.op = "update" /\ ~repo.useTimestamps
  /\ repo.last.before = <<[name |-> "undefined", updated_by |-> "7"]>>
  /\ repo.last.written = <<[name |-> "null", updated_by |-> "7"]>>

\* A step of the repository call op.
RepoStep(op) == repo.made /\ repo' # repo /\ repo'.last.op = op

C22_UpdateHooks ==
  (repo.last.op = "update" /\ repo.last.outcome = "ok") =>
    LET ev == repo.last.events
        At(e) == {i \in 1..Len(ev) : ev[i] = e} IN
      /\ \E i \in At("beforeUpdate"), j \in At("UPDATE") : i < j
      /\ repo.last.result >= 1 <=>
           \E j \in At("UPDATE"), k \in At("afterUpdate") : j < k
      /\ Cardinality(At("afterUpdate")) <= 1

\* update(1, {name: "A"}) affected a row and no afterUpdate ran.
C22_Witness ==
  /\ repo.last.op = "update" /\ repo.last.outcome = "ok" /\ repo.last.result = 1
  /\ repo.last.events = <<"beforeUpdate", "UPDATE">>
  /\ "name" \in DOMAIN repo.table[1].row /\ repo.table[1].row["name"] = "A"

\* C23: softDelete(id) on a present, non-deleted row returns true and sets the
\* deletion marker; a second softDelete(id) directly after it returns false and
\* leaves deleted_at and deleted_by as the first call set them; softDelete on an
\* absent row returns false and changes nothing.
C23_SoftDeleteIdempotent ==
  [][RepoStep("softDelete") =>
       LET id == repo'.last.id
           present == id \in 1..Len(repo.table) /\ ~repo.table[id].gone
           live == present /\ repo.table[id].deleted_at = "null"
           second == /\ repo.last.op = "softDelete" /\ repo.last.id = id
                     /\ repo.last.result = 1 IN
         /\ live => /\ repo'.last.result = 1
                    /\ repo'.table[id].deleted_at # "null"
                    /\ repo'.table[id].row = repo.table[id].row
         /\ second => /\ repo'.last.result = 0
                      /\ repo'.table = repo.table
         /\ ~present => /\ repo'.last.result = 0
                        /\ repo'.table = repo.table
         /\ \A i \in 1..Len(repo.table) : i # id => repo'.table[i] = repo.table[i]]_vars

\* softDelete(1, 7) at t1, then softDelete(1) again: false, marker still t1 by 7.
C23_Witness ==
  /\ repo.last.op = "softDelete" /\ repo.last.id = 1 /\ repo.last.result = 0
  /\ Len(repo.table) >= 1 /\ ~repo.table[1].gone
  /\ repo.table[1].deleted_at = "t1" /\ repo.table[1].deleted_by = "7"

\* C24: after any sequence of create, update, softDelete, restore and hardDelete,
\* findById(id) returns the row exactly when the row exists and its deletion
\* marker is clear; restore(id) returns true and clears marker and actor exactly
\* on a soft-deleted row, and returns false and changes nothing on a non-deleted,
\* hard-deleted or absent row.
C24_SoftDeleteLifecycle ==
  [][LET id == repo'.last.id
         present == id \in 1..Len(repo.table) /\ ~repo.table[id].gone
         marked == present /\ repo.table[id].deleted_at # "null" IN
       /\ RepoStep("findById") =>
            /\ repo'.table = repo.table
            /\ Len(repo'.last.found) = 1 <=> (present /\ ~marked)
            /\ (present /\ ~marked) => repo'.last.found[1] = repo.table[id].row
       /\ RepoStep("restore") =>
            /\ repo'.last.result = 1 <=> marked
            /\ marked => repo'.table = [repo.table EXCEPT ![id].deleted_at = "null",
                                                          ![id].deleted_by = "null"]
            /\ ~marked => repo'.table = repo.table]_vars

\* create, softDelete, restore, then findById(1) finds the row again.
C24_Witness ==
  /\ repo.last.op = "findById" /\ repo.last.id = 1 /\ Len(repo.last.found) = 1
  /\ repo.table[1].deleted_at = "null" /\ repo.table[1].deleted_by = "null"
  /\ repo.table[1].row["name"] = "B"
  /\ repo.useSoftDeletes /\ ~repo.useTimestamps

\* C27: the wait before the retry that follows failed attempt n is
\* 50 * 2^(n-1) ms: 50 for n = 1, 100 for n = 2, 200 for n = 3.
C27_ExponentialBackoff ==
  \A n \in 1..Len(hist.waits) : hist.waits[n] = 50 * 2 ^ (n - 1)

\* Three deadlocks in a row under the default of three retries: the waits are
\* 50, 100 and 150 ms.
C27_Witness ==
  /\ hist.opt = Undefined
  /\ hist.waits = <<50, 100, 150>>

\* C25: a raw statement issued through executeRaw by an unbound repository
\* inside the work executes on the transaction's connection, and when the root
\* call ends by raising, no row written by a raw statement of its work is in
\* the committed state.
C25_RawOnTxConnection ==
  /\ (lastStmt.kind = "raw" /\ lastStmt.ambient # NoConn /\ lastStmt.bound = NoConn) =>
       (lastStmt.via = "conn" /\ lastStmt.on = lastStmt.ambient)
  /\ outcome.status = "raised" => \A r \in committed : r.src # "raw"

\* The work issued one raw UPDATE through an unbound repository and then threw:
\* the call raised, the transaction was rolled back, the raw row is committed.
C25_Witness ==
  /\ outcome.status = "raised" /\ hist.rollbacksOk = 1 /\ hist.commits = 0
  /\ \E r \in committed : r.src = "raw" /\ r.att = 1 /\ r.scopes = {}

\* C26: in a nested call ROLLBACK TO SAVEPOINT is issued only for a savepoint the
\* same call created (the catch block, whose first statement is ROLLBACK TO, is
\* entered only with the savepoint made); and a rejected SAVEPOINT, RELEASE or
\* ROLLBACK TO is not swallowed: the nested call ends by raising a driver error,
\* and when that error ends the root call nothing of the work is committed.
C26_SavepointProtocol ==
  /\ \A i \in 1..Len(stack) :
       (stack[i].kind = "nested" /\ stack[i].pc = "catch") => stack[i].spMade
  /\ \A s \in DOMAIN scopeEnd :
       scopeEnd[s].rb = "failed" =>
         (scopeEnd[s].end = "raised" /\ scopeEnd[s].raised.src = "ROLLBACK TO")
  /\ (Ended /\ outcome.status = "raised"
        /\ outcome.err.src \in {"SAVEPOINT", "RELEASE", "ROLLBACK TO"}) =>
       (hist.commitsOk = 0 /\ \A r \in committed : r.src # "work")

\* SAVEPOINT was rejected: the nested call is in its catch block, about to issue
\* ROLLBACK TO SAVEPOINT for a savepoint that was never created.
C26_Witness ==
  /\ stack # <<>> /\ Top.kind = "nested" /\ Top.pc = "catch"
  /\ ~Top.spMade /\ Top.err.src = "SAVEPOINT" /\ Top.runs = 0

\* C29: every statement the builder emits (toSql after any sequence of where,
\* whereIn, whereNull, whereRaw, having, limit and offset calls, and the statements
\* of insert, insertMany, update and delete) has exactly as many ? placeholders as
\* values.
C29_PlaceholderAlignment ==
  qb.out.done =>
    Cardinality({k \in 1..Len(qb.out.stmt) : qb.out.stmt[k] = "?"}) = Len(qb.out.values)

\* where('a', '=', 1) and having('b', '>', 2), then toSql: two placeholders, one
\* value.
C29_Witness ==
  /\ qb.out.done
  /\ qb.out.stmt = <<"SELECT", "WHERE", "a", "=", "?", "HAVING", "b", ">", "?">>
  /\ qb.out.values = <<1>>
  /\ qb.havingClause = <<<<"b", ">", "?">>>>

\* C30: on a builder whose conditions match T rows, count() returns T whatever
\* limit and offset an earlier terminal call left, and leaves them as it found
\* them; paginate returns meta.total = T, and a second paginate call with the
\* same page >= 1 and page size returns the envelope of the first.
C30_BuilderReuse ==
  (pg.done /\ "op" \in DOMAIN pg) =>
    /\ pg.op = "count" => (pg.result = pg.T /\ pg.after = pg.before)
    /\ pg.op = "paginate" =>
         /\ pg.meta.total = pg.T
         /\ \A p \in Rows(pg.prev) :
              (p.page = pg.page /\ p.perPage = pg.perPage) => p.meta = pg.meta

\* paginate(2, 10) twice over 25 matching rows: the second call counts with
\* LIMIT 10 OFFSET 10 and reports total 0.
C30_Witness ==
  /\ pg.done /\ "op" \in DOMAIN pg /\ pg.op = "paginate"
  /\ pg.T = 25 /\ pg.page = 2 /\ pg.perPage = 10
  /\ pg.before = <<<<10>>, <<10>>>>
  /\ pg.prev = <<[perPage |-> 10, page |-> 2,
                  meta |-> [total |-> 25, current_page |-> 2,
                            last_page |-> NumInt(3), per_page |-> 10]]>>
  /\ pg.meta.total = 0 /\ pg.meta.last_page = NumInt(0)
  /\ Len(pg.data) = 10

\* C28: a statement that an async function started by the work and not awaited
\* routes to the ambient connection is sent inside the attempt that started it,
\* after its BEGIN and before its COMMIT / ROLLBACK and release; so no call that
\* holds the connection later receives it.
C28_NoStatementOutsideLifetime ==
  \A p \in Procs :
    procs[p].task.state = "sent" =>
      (procs[p].task.phase = "inside" /\ procs[p].task.holder = 0)

\* The first call committed and released its connection; the second call
\* acquired the same connection and is in its work when the first call's task
\* sends its statement on it.
C28_Witness ==
  \E p, q \in Procs :
    /\ p # q
    /\ procs[p].task.state = "sent" /\ procs[p].task.phase = "released"
    /\ procs[p].task.holder = q
    /\ procs[p].pc = "done" /\ procs[p].exit = "return"
    /\ procs[q].pc = "work" /\ procs[q].conn = procs[p].task.conn

====
